---- MODULE Spec2Model ----
(***************************************************************************)
(* Model of the mail agent's mailbox session and batch operation engine:   *)
(* EmailClient (src/mailer.py) and TaskExecutor (src/tasks.py), run        *)
(* against an IMAP server and an SMTP server.                              *)
(*                                                                         *)
(* The servers are the environment.  A mail folder is a sequence of        *)
(* messages; the position of a message in its folder is its IMAP message   *)
(* sequence number, which is what imaplib's search/fetch/store/copy (as    *)
(* opposed to uid(...)) address.  Every protocol command the client sends  *)
(* gets an outcome: OK, NO (the server refuses, imaplib returns the        *)
(* status), EXC (a connection-type exception) or ERR (another exception,   *)
(* e.g. imaplib's "command illegal in state").  The outcomes the server    *)
(* is free to choose are drawn from a fault script per operation.          *)
(***************************************************************************)
EXTENDS Integers, Sequences, FiniteSets, TLC

\* ---------------------------------------------------------------- bounds
MaxMsgs == 3
MaxFaults == 1
MaxCmd == 8
MaxRcpt == 3
MaxList == 3
MaxBatchFaults == 2
MaxBatchCmd == 9
MaxTaskCmd == 15
MaxCount == 2
MaxFolders == 3
MaxFiled == 1
MaxRequests == 3
MaxRequestId == 1
MaxAddr == 2
MaxText == 3
MaxResponse == 4

Msgs == 1..MaxMsgs

\* Config.DEFAULT_FOLDER and Config.ARCHIVE_FOLDER
DEFAULT_FOLDER == "INBOX"
ARCHIVE_FOLDER == "Archive"

\* _select_folder's retry_count and get_email_by_index's count
RetryCount == 2
INDEX_COUNT == 50

\* The counts summarize_email and list_recent_emails default to
SUMMARY_COUNT == 5
LIST_COUNT == 10

\* reply_to_email's max_attempts and the size of the listing it offers
MAX_ATTEMPTS == 5
REPLY_LISTING == 5

\* The messages whose sender matches _NON_REPLYABLE_ADDRESSES.
NonReplyable == {2}

\* The messages older than the 30 days get_recent_emails searches first.
OldMsgs == {1}

\* The folders that exist on the server.
ServerFolders == {"INBOX", "Archive"}

FaultKinds == {"NO", "EXC"}

\* A fault script: which of the first MaxCmd commands of an operation the
\* server answers with NO or breaks with a connection error.
FaultScripts ==
  UNION {[S -> FaultKinds] : S \in {T \in SUBSET (1..MaxCmd) : Cardinality(T) <= MaxFaults}}

BatchScripts ==
  UNION {[S -> FaultKinds] :
           S \in {T \in SUBSET (1..MaxBatchCmd) : Cardinality(T) <= MaxBatchFaults}}

\* One command of a request of TaskExecutor fails, or none.
TaskScripts ==
  UNION {[S -> FaultKinds] : S \in {{}} \cup {{n} : n \in 1..MaxTaskCmd}}

VARIABLES
  box,      \* server: folder name -> sequence of message identities
  deleted,  \* server: messages of INBOX carrying the \Deleted flag
  seen,     \* server: messages of INBOX carrying the \Seen flag
  imap,     \* client: imap_connection ("None", "Auth", "Unauth", "Dead")
  smtp,     \* client: smtp_connection ("None", "Auth", "Unauth", "Dead")
  sel,      \* client/server: folder selected on the IMAP session, or "none"
  op,       \* the last operation called: [name, ...arguments]
  ret,      \* what the last operation returned
  log,      \* the protocol commands the last operation sent, with outcomes
  pre,      \* the server and session state the last operation started from
  pc,       \* "ready": no request executed yet; "done": the request returned
  arrived,  \* server: the requests received, in the order they arrived
  running,  \* server: request number -> the activation of its handler
  inflight, \* session: the protocol calls issued and not yet answered
  wire      \* session: the protocol calls issued, in order, each with its request

server == <<arrived, running, inflight, wire>>

vars == <<box, deleted, seen, imap, smtp, sel, op, ret, log, pre, pc,
          arrived, running, inflight, wire>>

\* ------------------------------------------------------------ the world
\* The state an operation runs on, threaded through the calls it makes.
\* n counts the commands sent, r is the outcome of the last command,
\* ret the return value of the last method.
World(f) ==
  [box |-> box, deleted |-> deleted, seen |-> seen, imap |-> imap,
   smtp |-> smtp, sel |-> sel, log |-> <<>>, n |-> 0,
   faults |-> f, r |-> "OK", ret |-> FALSE, exc |-> FALSE,
   ro |-> FALSE, flags |-> "before"]

Snapshot ==
  [box |-> box, deleted |-> deleted, seen |-> seen, imap |-> imap,
   smtp |-> smtp, sel |-> sel]

\* "x = f(...)" followed by the statements that use x.
Do(x, Then(_)) == Then(x)

Ret(w, v) == [w EXCEPT !.ret = v]

\* The outcome the server gives the next command, from the fault script.
Scripted(w) ==
  IF (w.n + 1) \in DOMAIN w.faults THEN w.faults[w.n + 1] ELSE "OK"

\* A command that went on the wire with outcome r.
Sent(w, c, m, r) ==
  [w EXCEPT !.n = @ + 1, !.r = r,
            !.log = Append(@, [c |-> c, m |-> m, r |-> r])]

\* A call that raised before anything was sent (handle None, or imaplib's
\* own check that the command is legal in the session's state).
NotSent(w) == [w EXCEPT !.r = "ERR"]

\* ----------------------------------------------------- folder names
\* Folder names are strings; Spelling gives the characters of a name (a name
\* written U+xxxx... stands for the Chinese name with these code points).
Spelling(name) ==
  CASE name = "INBOX" -> <<"I", "N", "B", "O", "X">>
    [] name = "archiv" -> <<"a", "r", "c", "h", "i", "v">>
    [] name = "ARCHIVE" -> <<"A", "R", "C", "H", "I", "V", "E">>
    [] name = "Archive" -> <<"A", "r", "c", "h", "i", "v", "e">>
    [] name = "Sent" -> <<"S", "e", "n", "t">>
    [] name = "Sent Messages" -> <<"S", "e", "n", "t", " ", "M", "e", "s", "s", "a", "g", "e", "s">>
    [] name = "Projects" -> <<"P", "r", "o", "j", "e", "c", "t", "s">>
    [] name = "inbox" -> <<"i", "n", "b", "o", "x">>
    [] name = "starred" -> <<"s", "t", "a", "r", "r", "e", "d">>
    [] name = "archive" -> <<"a", "r", "c", "h", "i", "v", "e">>
    [] name = "sent" -> <<"s", "e", "n", "t">>
    [] name = "trash" -> <<"t", "r", "a", "s", "h">>
    [] name = "projects" -> <<"p", "r", "o", "j", "e", "c", "t", "s">>
    [] name = "drafts" -> <<"d", "r", "a", "f", "t", "s">>
    [] name = "spam" -> <<"s", "p", "a", "m">>
    [] name = "&XfJT0ZAB-" -> <<"&", "X", "f", "J", "T", "0", "Z", "A", "B", "-">>
    [] name = "U+5DF2U+53D1U+9001" -> <<"U+5DF2", "U+53D1", "U+9001">>
    [] name = "Drafts" -> <<"D", "r", "a", "f", "t", "s">>
    [] name = "&g0l6P3ux-" -> <<"&", "g", "0", "l", "6", "P", "3", "u", "x", "-">>
    [] name = "U+8349U+7A3FU+7BB1" -> <<"U+8349", "U+7A3F", "U+7BB1">>
    [] name = "Draft" -> <<"D", "r", "a", "f", "t">>
    [] name = "Junk" -> <<"J", "u", "n", "k">>
    [] name = "&V4NXPpCuTvY-" -> <<"&", "V", "4", "N", "X", "P", "p", "C", "u", "T", "v", "Y", "-">>
    [] name = "U+5783U+573EU+90AEU+4EF6" -> <<"U+5783", "U+573E", "U+90AE", "U+4EF6">>
    [] name = "Spam" -> <<"S", "p", "a", "m">>
    [] name = "Deleted Messages" -> <<"D", "e", "l", "e", "t", "e", "d", " ", "M", "e", "s", "s", "a", "g", "e", "s">>
    [] name = "&XfJSIJZk-" -> <<"&", "X", "f", "J", "S", "I", "J", "Z", "k", "-">>
    [] name = "U+5DF2U+5220U+9664" -> <<"U+5DF2", "U+5220", "U+9664">>
    [] name = "Trash" -> <<"T", "r", "a", "s", "h">>
    [] name = "&dcVr0mWHTvZZOQ-" -> <<"&", "d", "c", "V", "r", "0", "m", "W", "H", "T", "v", "Z", "Z", "O", "Q", "-">>
    [] name = "U+5F52U+6863" -> <<"U+5F52", "U+6863">>
    [] name = "Starred" -> <<"S", "t", "a", "r", "r", "e", "d">>
    [] name = "U+661FU+6807U+90AEU+4EF6" -> <<"U+661F", "U+6807", "U+90AE", "U+4EF6">>
    [] name = "Flagged" -> <<"F", "l", "a", "g", "g", "e", "d">>
    [] name = "Nowhere" -> <<"N", "o", "w", "h", "e", "r", "e">>

\* Config.FOLDER_NAMES
FOLDER_NAMES ==
  [sent |-> <<"Sent Messages", "&XfJT0ZAB-", "U+5DF2U+53D1U+9001", "Sent">>,
   drafts |-> <<"Drafts", "&g0l6P3ux-", "U+8349U+7A3FU+7BB1", "Draft">>,
   spam |-> <<"Junk", "&V4NXPpCuTvY-", "U+5783U+573EU+90AEU+4EF6", "Spam">>,
   trash |-> <<"Deleted Messages", "&XfJSIJZk-", "U+5DF2U+5220U+9664", "Trash">>,
   archive |-> <<"Archive", "&dcVr0mWHTvZZOQ-", "U+5F52U+6863">>,
   starred |-> <<"Starred", "U+661FU+6807U+90AEU+4EF6", "Flagged">>]

\* str.lower() and str.upper() on the characters of a name.
UpperCase ==
  <<"A", "B", "C", "D", "E", "F", "G", "H", "I", "J", "K", "L", "M",
    "N", "O", "P", "Q", "R", "S", "T", "U", "V", "W", "X", "Y", "Z">>

LowerCase ==
  <<"a", "b", "c", "d", "e", "f", "g", "h", "i", "j", "k", "l", "m",
    "n", "o", "p", "q", "r", "s", "t", "u", "v", "w", "x", "y", "z">>

Cased(c, from, to) ==
  IF \E i \in DOMAIN from : from[i] = c
  THEN to[CHOOSE i \in DOMAIN from : from[i] = c]
  ELSE c

\* The names that occur: folders of the server, roles, candidate names.
Names ==
  {"INBOX", "archiv", "ARCHIVE", "Archive", "Sent", "Sent Messages",
   "Projects", "inbox", "starred", "archive", "sent", "trash", "projects",
   "drafts", "spam", "&XfJT0ZAB-", "U+5DF2U+53D1U+9001", "Drafts",
   "&g0l6P3ux-", "U+8349U+7A3FU+7BB1", "Draft", "Junk", "&V4NXPpCuTvY-",
   "U+5783U+573EU+90AEU+4EF6", "Spam", "Deleted Messages", "&XfJSIJZk-",
   "U+5DF2U+5220U+9664", "Trash", "&dcVr0mWHTvZZOQ-", "U+5F52U+6863",
   "Starred", "U+661FU+6807U+90AEU+4EF6", "Flagged", "Nowhere"}

Recased(s, from, to) == [i \in DOMAIN s |-> Cased(s[i], from, to)]

\* name.lower() and name.upper(), worked out once for every name.
Lowered == [name \in Names |-> Recased(Spelling(name), UpperCase, LowerCase)]

Uppered == [name \in Names |-> Recased(Spelling(name), LowerCase, UpperCase)]

lower(name) == Lowered[name]

upper(name) == Uppered[name]

\* "a in b" on two strings given by their characters.
contains(a, b) ==
  \E k \in 0..(Len(b) - Len(a)) : SubSeq(b, k + 1, k + Len(a)) = a

\* None, where a folder name is expected.
NoFolder == "None"

\* The mailbox name the server understands: INBOX in any letter case is INBOX.
InboxNames == {name \in Names : Uppered[name] = Spelling("INBOX")}

Canonical(folder) == IF folder \in InboxNames THEN "INBOX" ELSE folder

\* The order in which the server lists the folders it has.
ServerOrder ==
  <<"INBOX", "archiv", "ARCHIVE", "Archive", "Sent", "Sent Messages", "Projects">>

\* -------------------------------------------------- the IMAP session
\* imaplib refuses a command that is illegal in the session's state before
\* sending it; a command on a dead connection fails on the wire.
InRange(w, m) == w.sel \in DOMAIN w.box /\ m \in 1..Len(w.box[w.sel])

\* NOOP is legal in every state of a connection.
Noop(w) ==
  CASE w.imap = "None" -> NotSent(w)
    [] w.imap = "Dead" -> Sent(w, "NOOP", 0, "EXC")
    [] OTHER -> Sent(w, "NOOP", 0, Scripted(w))

\* SELECT (or EXAMINE): legal once authenticated.  A folder the server does
\* not have is refused.  imaplib leaves the session in state AUTH when the
\* status is not OK.
SelectCmd(w, c, folder) ==
  CASE w.imap \in {"None", "Unauth"} -> NotSent(w)
    [] w.imap = "Dead" -> Sent(w, c, 0, "EXC")
    [] OTHER ->
       LET s == Scripted(w)
           r == IF s = "OK" /\ Canonical(folder) \notin DOMAIN w.box THEN "NO" ELSE s
           w1 == Sent(w, c, 0, r)
       IN CASE r = "OK" -> [w1 EXCEPT !.sel = Canonical(folder), !.ro = (c = "EXAMINE")]
            [] r = "NO" -> [w1 EXCEPT !.sel = "none"]
            [] OTHER -> w1

\* The outcome of a command that needs a selected folder and addresses the
\* message with sequence number m (m = 0: no message addressed).  The server
\* refuses what it cannot do (can = FALSE).
Selected(w, c, m, can) ==
  CASE w.imap \in {"None", "Unauth"} -> NotSent(w)
    [] w.imap = "Dead" -> Sent(w, c, m, "EXC")
    [] w.sel = "none" -> NotSent(w)
    [] OTHER ->
       LET s == Scripted(w)
       IN Sent(w, c, m, IF s = "OK" /\ ~can THEN "NO" ELSE s)

\* STORE m +FLAGS/-FLAGS flag.  The flags of the model are INBOX's.
Store(w, m, add, flag) ==
  LET u == w.box[w.sel][m]
  IN Do(Selected(w, IF add THEN "STORE+" ELSE "STORE-", m,
                        InRange(w, m) /\ w.sel = DEFAULT_FOLDER), LAMBDA w1 :
     IF w1.r # "OK" THEN w1
     ELSE IF flag = "Deleted"
          THEN [w1 EXCEPT !.deleted = IF add THEN @ \cup {u} ELSE @ \ {u}]
          ELSE [w1 EXCEPT !.seen = IF add THEN @ \cup {u} ELSE @ \ {u}])

\* COPY m folder: the message is added to the target folder (the model
\* keeps one entry per message identity in a folder).
InFolder(b, folder) == {b[folder][i] : i \in 1..Len(b[folder])}

\* The entry of a command that was sent also tells the folder it named.
Naming(w, w1, folder) ==
  IF w1.n = w.n THEN w1
  ELSE [w1 EXCEPT !.log[Len(w1.log)] =
                    [c |-> @.c, m |-> @.m, r |-> @.r, to |-> folder]]

Copy(w, m, folder) ==
  LET u == w.box[w.sel][m]
  IN Do(Naming(w, Selected(w, "COPY", m, InRange(w, m) /\ folder \in DOMAIN w.box),
               folder), LAMBDA w1 :
     IF w1.r # "OK" \/ u \in InFolder(w.box, folder) THEN w1
     ELSE [w1 EXCEPT !.box[folder] = Append(@, u)])

\* EXPUNGE: every message of the selected folder that carries \Deleted goes.
Expunge(w) ==
  LET Keep(u) == u \notin w.deleted
  IN Do(Selected(w, "EXPUNGE", 0, TRUE), LAMBDA w1 :
     IF w1.r # "OK" \/ w.sel # DEFAULT_FOLDER THEN w1
     ELSE [w1 EXCEPT !.box[DEFAULT_FOLDER] = SelectSeq(@, Keep),
                     !.deleted = {},
                     !.seen = @ \ w.deleted])

\* FETCH m: the message at sequence number m of the selected folder, or
\* nothing (status NO here) when there is none.  Fetching the whole message
\* (RFC822, no PEEK) sets \Seen unless the folder is open read-only.
Fetch(w, m, peek) ==
  Do(Selected(w, "FETCH", m, InRange(w, m)), LAMBDA w1 :
     IF w1.r = "OK" /\ ~peek /\ ~w.ro /\ w.sel = DEFAULT_FOLDER
     THEN [w1 EXCEPT !.seen = @ \cup {w.box[w.sel][m]}]
     ELSE w1)

\* SEARCH: the sequence numbers of the selected folder.
Search(w) == Selected(w, "SEARCH", 0, TRUE)

\* ------------------------------------------------- EmailClient: sessions
\* connect_imap: the constructor opens the connection (the handle is only
\* assigned once it returns), login authenticates, the ID command is sent
\* and its failure ignored.
\* A connect that fails when the ID command fails.
connect_imap_strict(w) ==
  Do(Sent(w, "CONNECT", 0, Scripted(w)), LAMBDA w1 :
     IF w1.r # "OK" THEN Ret(w1, FALSE)
     ELSE Do(Sent([w1 EXCEPT !.imap = "Unauth", !.sel = "none"],
                         "LOGIN", 0, Scripted(w1)), LAMBDA w2 :
             IF w2.r # "OK" THEN Ret(w2, FALSE)
             ELSE Do(Sent([w2 EXCEPT !.imap = "Auth"], "ID", 0, Scripted(w2)), LAMBDA w3 :
                     Ret(w3, w3.r = "OK"))))

connect_imap(w) ==
  Do(Sent(w, "CONNECT", 0, Scripted(w)), LAMBDA w1 :
     IF w1.r # "OK" THEN Ret(w1, FALSE)
     ELSE Do(Sent([w1 EXCEPT !.imap = "Unauth", !.sel = "none"],
                         "LOGIN", 0, Scripted(w1)), LAMBDA w2 :
             IF w2.r # "OK" THEN Ret(w2, FALSE)
             ELSE Do(Sent([w2 EXCEPT !.imap = "Auth"], "ID", 0, Scripted(w2)), LAMBDA w3 :
                     Ret(w3, TRUE))))

\* A disconnect whose failing logout escapes, the handle left as it was.
disconnect_imap_raising(w) ==
  IF w.imap = "None" THEN w
  ELSE Do(Sent(w, "LOGOUT", 0, IF w.imap = "Dead" THEN "EXC" ELSE Scripted(w)), LAMBDA w1 :
          IF w1.r # "OK" THEN [w1 EXCEPT !.exc = TRUE]
          ELSE [w1 EXCEPT !.imap = "None", !.sel = "none"])

\* disconnect_imap: logout, errors swallowed, handle cleared.
disconnect_imap(w) ==
  IF w.imap = "None" THEN w
  ELSE Do(Sent(w, "LOGOUT", 0, IF w.imap = "Dead" THEN "EXC" ELSE Scripted(w)), LAMBDA w1 :
          [w1 EXCEPT !.imap = "None", !.sel = "none"])

\* _check_imap_connection: no handle -> False; NOOP; the handle is cleared
\* only when NOOP raises.
_check_imap_connection(w) ==
  IF w.imap = "None" THEN Ret(w, FALSE)
  ELSE Do(Noop(w), LAMBDA w1 :
          CASE w1.r = "OK" -> Ret(w1, TRUE)
            [] w1.r = "NO" -> Ret(w1, FALSE)
            [] OTHER -> Ret([w1 EXCEPT !.imap = "None", !.sel = "none"], FALSE))

\* _ensure_imap_connection
_ensure_imap_connection(w) ==
  Do(_check_imap_connection(w), LAMBDA w1 :
     IF w1.ret THEN w1 ELSE connect_imap(w1))

\* connect_smtp / disconnect_smtp
connect_smtp(w) ==
  Do(Sent(w, "SMTP_CONNECT", 0, Scripted(w)), LAMBDA w1 :
     IF w1.r # "OK" THEN Ret(w1, FALSE)
     ELSE Do(Sent([w1 EXCEPT !.smtp = "Unauth"], "SMTP_LOGIN", 0, Scripted(w1)), LAMBDA w2 :
             IF w2.r # "OK" THEN Ret(w2, FALSE)
             ELSE Ret([w2 EXCEPT !.smtp = "Auth"], TRUE)))

disconnect_smtp(w) ==
  IF w.smtp = "None" THEN w
  ELSE Do(Sent(w, "QUIT", 0, IF w.smtp = "Dead" THEN "EXC" ELSE Scripted(w)), LAMBDA w1 :
          [w1 EXCEPT !.smtp = "None"])

\* sendmail on the submission session: u is the message sent, to the
\* recipient t.
Submitted(w, msg, r) ==
  [w EXCEPT !.n = @ + 1, !.r = r,
            !.log = Append(@, [c |-> "SENDMAIL", m |-> msg.u, r |-> r, to |-> msg.to,
                               subject |-> msg.subject, body |-> msg.body])]

Sendmail(w, msg) ==
  CASE w.smtp = "None" -> NotSent(w)
    [] w.smtp = "Dead" -> Submitted(w, msg, "EXC")
    [] w.smtp = "Unauth" ->
         Submitted(w, msg, IF Scripted(w) = "EXC" THEN "EXC" ELSE "NO")
    [] OTHER -> Submitted(w, msg, Scripted(w))

\* ------------------------------------------- EmailClient: single messages
Raised(w) == w.r \in {"EXC", "ERR"}

\* "if not self.imap_connection: if not self.connect_imap(): return False"
\* A handle that is present is used as it is.
imap_handle(w) == IF w.imap = "None" THEN connect_imap(w) ELSE Ret(w, TRUE)

smtp_handle(w) == IF w.smtp = "None" THEN connect_smtp(w) ELSE Ret(w, TRUE)

\* (mutant) the copy status is not looked at.
archive_after_copy_unchecked(w, m) ==
  Do(Store(w, m, TRUE, "Deleted"), LAMBDA w1 :
     IF Raised(w1) THEN Ret(w1, FALSE)
     ELSE Do(Expunge(w1), LAMBDA w2 :
             IF Raised(w2) THEN Ret(w2, FALSE) ELSE Ret(w2, TRUE)))

\* The delete-flag store and the expunge that follow a copy in
\* archive_email_to_folder: only when copy reported OK.
archive_after_copy(w, m) ==
  IF w.r = "OK"
  THEN Do(Store(w, m, TRUE, "Deleted"), LAMBDA w1 :
          IF Raised(w1) THEN Ret(w1, FALSE)
          ELSE Do(Expunge(w1), LAMBDA w2 :
                  IF Raised(w2) THEN Ret(w2, FALSE) ELSE Ret(w2, TRUE)))
  ELSE Ret(w, FALSE)

\* archive_email_to_folder(email_id, folder_name)
archive_email_to_folder(w, m, folder) ==
  Do(imap_handle(w), LAMBDA w0 :
     IF ~w0.ret THEN Ret(w0, FALSE)
     ELSE Do(SelectCmd(w0, "SELECT", DEFAULT_FOLDER), LAMBDA w1 :
             IF Raised(w1) THEN Ret(w1, FALSE)
             ELSE Do(Copy(w1, m, folder), LAMBDA w2 :
                     IF Raised(w2) THEN Ret(w2, FALSE)
                     ELSE archive_after_copy(w2, m))))

\* move_email_to_folder delegates to archive_email_to_folder.
move_email_to_folder(w, m, folder) == archive_email_to_folder(w, m, folder)

\* What delete_email returns once select, store and expunge have run
\* without raising: the statuses are not looked at.
delete_result(w) == TRUE

\* delete_email(email_id)
delete_email(w, m) ==
  Do(imap_handle(w), LAMBDA w0 :
     IF ~w0.ret THEN Ret(w0, FALSE)
     ELSE Do(SelectCmd(w0, "SELECT", DEFAULT_FOLDER), LAMBDA w1 :
             IF Raised(w1) THEN Ret(w1, FALSE)
             ELSE Do(Store(w1, m, TRUE, "Deleted"), LAMBDA w2 :
                     IF Raised(w2) THEN Ret(w2, FALSE)
                     ELSE Do(Expunge(w2), LAMBDA w3 :
                             IF Raised(w3) THEN Ret(w3, FALSE)
                             ELSE Ret(w3, delete_result(w3))))))

\* mark_email_as_read / mark_email_as_unread (add = TRUE / FALSE)
mark_email(w, m, add) ==
  Do(imap_handle(w), LAMBDA w0 :
     IF ~w0.ret THEN Ret(w0, FALSE)
     ELSE Do(SelectCmd(w0, "SELECT", DEFAULT_FOLDER), LAMBDA w1 :
             IF Raised(w1) THEN Ret(w1, FALSE)
             ELSE Do(Store(w1, m, add, "Seen"), LAMBDA w2 :
                     IF Raised(w2) THEN Ret(w2, FALSE) ELSE Ret(w2, TRUE))))

mark_email_as_read(w, m) == mark_email(w, m, TRUE)
mark_email_as_unread(w, m) == mark_email(w, m, FALSE)

\* The address message u was sent from (its "from"), the subject and the
\* body it has; addresses 1..MaxRcpt are those mail is forwarded to.
From(u) == MaxRcpt + u
Subject(u) == <<u>>
Body(u) == <<u>>

\* The dictionary get_email makes of message u (with its body).
Fetched(u) ==
  [id |-> u, u |-> u, index |-> 0, original_uid |-> 0, full |-> TRUE, seen |-> FALSE]

\* original_email["body"]: "" in a dictionary made without the body.
body_of(original_email) == IF original_email.full THEN Body(original_email.u) ELSE <<>>

\* (mutant) the reply is addressed to the account's first correspondent.
reply_message_elsewhere(original_email, reply_content) ==
  [u |-> original_email.u, to |-> 1,
   subject |-> <<"Re: ">> \o Subject(original_email.u), body |-> reply_content]

\* The message send_reply builds: To is the original's from, the subject
\* the original's after "Re: ".
reply_message(original_email, reply_content) ==
  [u |-> original_email.u, to |-> From(original_email.u),
   subject |-> <<"Re: ">> \o Subject(original_email.u), body |-> reply_content]

\* (mutant) the forwarded text ends after the quoted headers.
forward_message_headers(original_email, forward_to) ==
  [u |-> original_email.u, to |-> forward_to,
   subject |-> <<"Fwd: ">> \o Subject(original_email.u),
   body |-> <<"Forwarded message", From(original_email.u), Subject(original_email.u)>>]

\* The message forward_email builds: the subject after "Fwd: ", and a text
\* quoting the original's from, date and subject followed by its body.
forward_message(original_email, forward_to) ==
  [u |-> original_email.u, to |-> forward_to,
   subject |-> <<"Fwd: ">> \o Subject(original_email.u),
   body |-> <<"Forwarded message", From(original_email.u), Subject(original_email.u)>>
              \o body_of(original_email)]

\* forward_email(original_email, forward_to)
forward_email(w, original_email, forward_to) ==
  Do(smtp_handle(w), LAMBDA w0 :
     IF ~w0.ret THEN Ret(w0, FALSE)
     ELSE Do(Sendmail(w0, forward_message(original_email, forward_to)), LAMBDA w1 :
             Ret(w1, w1.r = "OK")))

\* send_reply(original_email, reply_content)
send_reply(w, original_email, reply_content) ==
  Do(smtp_handle(w), LAMBDA w0 :
     IF ~w0.ret THEN Ret(w0, FALSE)
     ELSE Do(Sendmail(w0, reply_message(original_email, reply_content)), LAMBDA w1 :
             Ret(w1, w1.r = "OK")))

\* send_email(to_addr, subject, content): a new message (of no message of
\* the mailbox).
new_message(to_addr) ==
  [u |-> 0, to |-> to_addr, subject |-> <<"subject">>, body |-> <<"content">>]

send_email(w, to_addr) ==
  Do(smtp_handle(w), LAMBDA w0 :
     IF ~w0.ret THEN Ret(w0, FALSE)
     ELSE Do(Sendmail(w0, new_message(to_addr)), LAMBDA w1 :
             Ret(w1, w1.r = "OK")))

\* ----------------------------------------------- EmailClient: retrieval
\* _select_folder(folder, retry_count): SELECT, then EXAMINE (read-only),
\* with a reconnect between attempts.  A connection-type error on SELECT
\* reconnects and goes straight to the next attempt.
\* time.sleep(seconds): the wait is recorded among the commands of the call.
Sleep(w, seconds) ==
  [w EXCEPT !.log = Append(@, [c |-> "SLEEP", m |-> seconds, r |-> "OK"])]

\* A reconnect that keeps the connection it has.
select_reconnect_kept(w) == _ensure_imap_connection(w)

\* Between two attempts: disconnect_imap(), time.sleep(1),
\* _ensure_imap_connection().
select_reconnect(w) == _ensure_imap_connection(Sleep(disconnect_imap(w), 1))

RECURSIVE select_attempt(_, _, _)
select_attempt(w, folder, attempt) ==
  IF attempt > RetryCount THEN Ret(w, FALSE)
  ELSE Do(SelectCmd(w, "SELECT", folder), LAMBDA w1 :
          IF w1.r = "OK" THEN Ret(w1, TRUE)
          ELSE IF w1.r = "EXC" /\ attempt < RetryCount
          THEN select_attempt(select_reconnect(w1), folder, attempt + 1)
          ELSE Do(SelectCmd(w1, "EXAMINE", folder), LAMBDA w2 :
                  IF w2.r = "OK" THEN Ret(w2, TRUE)
                  ELSE IF attempt < RetryCount
                  THEN Do(select_reconnect(w2), LAMBDA w3 :
                          IF ~w3.ret THEN Ret(w3, FALSE)
                          ELSE select_attempt(w3, folder, attempt + 1))
                  ELSE Ret(w2, FALSE)))

_select_folder(w, folder) ==
  Do(_ensure_imap_connection(w), LAMBDA w0 :
     IF ~w0.ret THEN Ret(w0, FALSE) ELSE select_attempt(w0, folder, 0))

\* An email_info dictionary: id is the identifier the message was fetched by
\* (a sequence number), u the message it is, index and original_uid are set
\* by the listing (0: key absent), full tells whether the body was fetched.
\* seen is what the FLAGS of the fetch response said.
NONE ==
  [id |-> 0, u |-> 0, index |-> 0, original_uid |-> 0, full |-> FALSE, seen |-> FALSE]

\* '\\Seen' in flags_str: the FLAGS item of the response to the fetch of
\* message u.  A fetch of the whole message sets \Seen; whether the FLAGS of
\* the same response show the flags before that or after it is the server's
\* choice (w.flags).
seen_in_flags(w, w2, u) == IF w.flags = "after" THEN u \in w2.seen ELSE u \in w.seen

\* get_email(email_id, lightweight): always on Config.DEFAULT_FOLDER.
get_email(w, m, lightweight) ==
  Do(_ensure_imap_connection(w), LAMBDA w0 :
     IF ~w0.ret THEN Ret(w0, NONE)
     ELSE Do(_select_folder(w0, DEFAULT_FOLDER), LAMBDA w1 :
             IF ~w1.ret THEN Ret(w1, NONE)
             ELSE Do(Fetch(w1, m, lightweight), LAMBDA w2 :
                     IF w2.r # "OK" THEN Ret(w2, NONE)
                     ELSE Ret(w2, [id |-> m, u |-> w2.box[w2.sel][m], index |-> 0,
                                   original_uid |-> 0, full |-> ~lightweight,
                                   seen |-> seen_in_flags(w1, w2, w2.box[w2.sel][m])]))))

\* ------------------------------------------------ EmailClient: folders
\* LIST: legal once authenticated.
List(w) ==
  CASE w.imap \in {"None", "Unauth"} -> NotSent(w)
    [] w.imap = "Dead" -> Sent(w, "LIST", 0, "EXC")
    [] OTHER -> Sent(w, "LIST", 0, Scripted(w))

\* The lines of the LIST response, each as split('"') cuts it: the server
\* answers (flags) "." "FolderName" for every folder it has.
Listing(w) ==
  LET Has(f) == f \in DOMAIN w.box
      Line(f) == <<"(flags) ", ".", " ", f, "">>
      present == SelectSeq(ServerOrder, Has)
  IN [i \in DOMAIN present |-> Line(present[i])]

\* folder_list: parts[-2] of every line with at least three parts.
folder_list(lines) ==
  LET Long(parts) == Len(parts) >= 3
      kept == SelectSeq(lines, Long)
  IN [i \in DOMAIN kept |-> kept[i][Len(kept[i]) - 1]]

list_folders(w) ==
  Do(_ensure_imap_connection(w), LAMBDA w0 :
     IF ~w0.ret THEN Ret(w0, <<>>)
     ELSE Do(List(w0), LAMBDA w1 :
             IF w1.r # "OK" THEN Ret(w1, <<>>)
             ELSE Ret(w1, folder_list(Listing(w1)))))

\* Config.FOLDER_NAMES.get(folder_type_lower, [folder_type])
possible_names(folder_type) ==
  IF \E key \in DOMAIN FOLDER_NAMES : Spelling(key) = lower(folder_type)
  THEN FOLDER_NAMES[CHOOSE key \in DOMAIN FOLDER_NAMES : Spelling(key) = lower(folder_type)]
  ELSE <<folder_type>>

\* The three tests of _find_folder on a possible name and an actual folder.
ExactMatch(possible_name, actual_folder) == possible_name = actual_folder

CaseMatch(possible_name, actual_folder) == lower(possible_name) = lower(actual_folder)

\* The pairs of names of which the first, lowered, occurs in the second,
\* lowered; worked out once.
Contained == {pair \in Names \X Names : contains(Lowered[pair[1]], Lowered[pair[2]])}

ContainMatch(possible_name, actual_folder) ==
  \/ <<possible_name, actual_folder>> \in Contained
  \/ <<actual_folder, possible_name>> \in Contained

\* "for possible_name in possible_names: for actual_folder in
\* available_folders: if Match: return actual_folder", NoFolder when the
\* loops end without a return.
first_match(Match(_, _), names, available_folders) ==
  LET hits == {h \in (DOMAIN names) \X (DOMAIN available_folders) :
                 Match(names[h[1]], available_folders[h[2]])}
      Before(h, g) == h[1] < g[1] \/ (h[1] = g[1] /\ h[2] <= g[2])
  IN IF hits = {} THEN NoFolder
     ELSE available_folders[(CHOOSE h \in hits : \A g \in hits : Before(h, g))[2]]

\* (mutant) the containment test is tried first.
match_folder_loosely(folder_type, available_folders) ==
  LET names == possible_names(folder_type)
      loose == first_match(ContainMatch, names, available_folders)
      exact == first_match(ExactMatch, names, available_folders)
      fold == first_match(CaseMatch, names, available_folders)
  IN IF loose # NoFolder THEN loose
     ELSE IF exact # NoFolder THEN exact
     ELSE IF fold # NoFolder THEN fold
     ELSE NoFolder

\* The rounds of _find_folder over a non-empty folder list: exact, then
\* case-insensitive, then containment, then the role name itself.
match_folder(folder_type, available_folders) ==
  LET names == possible_names(folder_type)
      exact == first_match(ExactMatch, names, available_folders)
      fold == first_match(CaseMatch, names, available_folders)
      loose == first_match(ContainMatch, names, available_folders)
  IN IF exact # NoFolder THEN exact
     ELSE IF fold # NoFolder THEN fold
     ELSE IF loose # NoFolder THEN loose
     ELSE IF \E j \in DOMAIN available_folders : available_folders[j] = folder_type
     THEN folder_type
     ELSE NoFolder

_find_folder(w, folder_type) ==
  IF upper(folder_type) = Spelling("INBOX") THEN Ret(w, "INBOX")
  ELSE IF lower(folder_type) = Spelling("starred") THEN Ret(w, NoFolder)
  ELSE Do(list_folders(w), LAMBDA w1 :
          IF w1.ret = <<>> THEN Ret(w1, NoFolder)
          ELSE Ret(w1, match_folder(folder_type, w1.ret)))

\* ------------------------------------------- EmailClient: retrieval (2)
\* The sequence numbers SEARCH returns, ascending: those of the messages
\* received within the window (SINCE), or all of them (ALL).
Numbers(w, since) ==
  LET b == w.box[w.sel]
      In(i) == ~since \/ b[i] \notin OldMsgs
  IN SelectSeq([i \in 1..Len(b) |-> i], In)

\* email_ids[-count:] when len(email_ids) > count, else email_ids.
LastIds(ids, count) ==
  IF Len(ids) > count
  THEN IF count > 0 THEN SubSeq(ids, Len(ids) - count + 1, Len(ids))
       ELSE IF count = 0 THEN ids
       ELSE SubSeq(ids, 1 - count, Len(ids))
  ELSE ids

\* (mutant) the identifiers are left oldest first.
Reversed_kept(q) == q

Reversed(q) == [i \in 1..Len(q) |-> q[Len(q) + 1 - i]]

\* The messages carrying the \\Flagged flag.
Flagged == {2}

\* The loop of get_recent_emails over recent_ids: a message whose fetch
\* fails is skipped, and so is, under the starred filter, one that is not
\* flagged; index is the position in recent_ids.
RECURSIVE listing_loop(_, _, _, _, _)
listing_loop(w, recent, i, emails, use_starred_filter) ==
  IF i > Len(recent) THEN Ret(w, emails)
  ELSE Do(get_email(w, recent[i], TRUE), LAMBDA w1 :
          listing_loop(w1, recent, i + 1,
                       IF w1.ret = NONE \/ (use_starred_filter /\ w1.ret.u \notin Flagged)
                       THEN emails
                       ELSE Append(emails, [w1.ret EXCEPT !.index = i,
                                                          !.original_uid = recent[i]]),
                       use_starred_filter))

\* The two searches of get_recent_emails: the window, then everything when
\* the first fails or finds nothing.  ret: whether a search was accepted and
\* the identifiers it gave.
search_recent(w) ==
  Do(Search(w), LAMBDA w2 :
     IF Raised(w2) THEN Ret(w2, [ok |-> FALSE, ids |-> <<>>])
     ELSE IF w2.r = "OK" /\ Numbers(w2, TRUE) # <<>>
     THEN Ret(w2, [ok |-> TRUE, ids |-> Numbers(w2, TRUE)])
     ELSE Do(Search(w2), LAMBDA w3 :
             IF w3.r # "OK" THEN Ret(w3, [ok |-> FALSE, ids |-> <<>>])
             ELSE Ret(w3, [ok |-> TRUE, ids |-> Numbers(w3, FALSE)])))

\* The folder get_recent_emails lists and whether it keeps flagged messages
\* only: folder None is the default folder, a folder other than INBOX is a
\* role the resolver turns into a name (NoFolder: there is nothing to list).
\* (mutant) the starred role lists INBOX without the filter.
listing_folder_unfiltered(w, folder) ==
  IF folder = NoFolder THEN Ret(w, [folder |-> DEFAULT_FOLDER, starred |-> FALSE])
  ELSE IF upper(folder) = Spelling("INBOX") THEN Ret(w, [folder |-> folder, starred |-> FALSE])
  ELSE Do(_find_folder(w, folder), LAMBDA w1 :
          IF w1.ret # NoFolder THEN Ret(w1, [folder |-> w1.ret, starred |-> FALSE])
          ELSE IF lower(folder) = Spelling("starred")
          THEN Ret(w1, [folder |-> "INBOX", starred |-> FALSE])
          ELSE Ret(w1, [folder |-> NoFolder, starred |-> FALSE]))

listing_folder(w, folder) ==
  IF folder = NoFolder THEN Ret(w, [folder |-> DEFAULT_FOLDER, starred |-> FALSE])
  ELSE IF upper(folder) = Spelling("INBOX") THEN Ret(w, [folder |-> folder, starred |-> FALSE])
  ELSE Do(_find_folder(w, folder), LAMBDA w1 :
          IF w1.ret # NoFolder THEN Ret(w1, [folder |-> w1.ret, starred |-> FALSE])
          ELSE IF lower(folder) = Spelling("starred")
          THEN Ret(w1, [folder |-> "INBOX", starred |-> TRUE])
          ELSE Ret(w1, [folder |-> NoFolder, starred |-> FALSE]))

\* get_recent_emails(count, folder): select the folder, search, take the
\* last count identifiers, newest first, and fetch each.
get_recent_emails(w, count, folder) ==
  Do(_ensure_imap_connection(w), LAMBDA w0 :
     IF ~w0.ret THEN Ret(w0, <<>>)
     ELSE Do(listing_folder(w0, folder), LAMBDA w1 :
             IF w1.ret.folder = NoFolder THEN Ret(w1, <<>>)
             ELSE Do(_select_folder(w1, w1.ret.folder), LAMBDA w2 :
                     IF ~w2.ret THEN Ret(w2, <<>>)
                     ELSE Do(search_recent(w2), LAMBDA w3 :
                             IF ~w3.ret.ok THEN Ret(w3, <<>>)
                             ELSE listing_loop(w3, Reversed(LastIds(w3.ret.ids, count)),
                                               1, <<>>, w1.ret.starred)))))

Max(a, b) == IF a >= b THEN a ELSE b

\* get_email_by_index(index, count = 50, folder = None)
get_email_by_index(w, index, folder) ==
  Do(get_recent_emails(w, Max(INDEX_COUNT, index), folder), LAMBDA w1 :
     IF w1.ret = <<>> \/ index < 1 \/ index > Len(w1.ret) THEN Ret(w1, NONE)
     ELSE Ret(w1, w1.ret[index]))

\* ------------------------------------------------- EmailClient: batches
\* The accounting of one item of a batch loop: res is what the per-item call
\* returned (TRUE, FALSE) or "raise" when it raised; tag is the item, done
\* the status string of a success.
EmptyReport == [success |-> 0, failed |-> 0, results |-> <<>>]

\* (mutant) an item that failed is recorded but not counted.
Account_uncounted(rep, tag, res, done) ==
  IF res = TRUE
  THEN [rep EXCEPT !.success = @ + 1,
                   !.results = Append(@, [tag |-> tag, status |-> done])]
  ELSE [rep EXCEPT !.results = Append(@, [tag |-> tag, status |-> "failed"])]

Account(rep, tag, res, done) ==
  CASE res = TRUE ->
         [rep EXCEPT !.success = @ + 1,
                     !.results = Append(@, [tag |-> tag, status |-> done])]
    [] res = FALSE ->
         [rep EXCEPT !.failed = @ + 1,
                     !.results = Append(@, [tag |-> tag, status |-> "failed"])]
    [] OTHER ->
         [rep EXCEPT !.failed = @ + 1,
                     !.results = Append(@, [tag |-> tag, status |-> "error"])]

\* The dictionary a batch method returns.
Report(items, rep) ==
  [total |-> Len(items), success |-> rep.success, failed |-> rep.failed,
   results |-> rep.results]

\* (mutant) the submission session of the previous send is kept.
fresh_smtp_kept(w) == w

\* batch_forward_email: before each send the submission session is torn down
\* when there is one, so that forward_email connects anew.
fresh_smtp(w) == IF w.smtp # "None" THEN disconnect_smtp(w) ELSE w

\* (mutant) the loop stops at the first recipient that fails.
RECURSIVE forward_loop_abort(_, _, _, _, _)
forward_loop_abort(w, original_email, recipients, i, rep) ==
  IF i > Len(recipients) THEN Ret(w, Report(recipients, rep))
  ELSE Do(forward_email(fresh_smtp(w), original_email, recipients[i]), LAMBDA w1 :
          LET rep1 == Account(rep, recipients[i], w1.ret, "success")
          IN IF w1.ret = TRUE THEN forward_loop_abort(w1, original_email, recipients, i + 1, rep1)
             ELSE Ret(w1, Report(recipients, rep1)))

RECURSIVE forward_loop(_, _, _, _, _)
forward_loop(w, original_email, recipients, i, rep) ==
  IF i > Len(recipients) THEN Ret(w, Report(recipients, rep))
  ELSE Do(forward_email(fresh_smtp(w), original_email, recipients[i]), LAMBDA w1 :
          forward_loop(w1, original_email, recipients, i + 1,
                       Account(rep, recipients[i], w1.ret, "success")))

batch_forward_email(w, original_email, recipients) ==
  forward_loop(w, original_email, recipients, 1, EmptyReport)

RECURSIVE archive_loop(_, _, _, _, _)
archive_loop(w, ids, folder, i, rep) ==
  IF i > Len(ids) THEN Ret(w, Report(ids, rep))
  ELSE Do(archive_email_to_folder(w, ids[i], folder), LAMBDA w1 :
          archive_loop(w1, ids, folder, i + 1, Account(rep, ids[i], w1.ret, "archived")))

batch_archive_emails(w, ids, folder) == archive_loop(w, ids, folder, 1, EmptyReport)

RECURSIVE delete_loop(_, _, _, _)
delete_loop(w, ids, i, rep) ==
  IF i > Len(ids) THEN Ret(w, Report(ids, rep))
  ELSE Do(delete_email(w, ids[i]), LAMBDA w1 :
          delete_loop(w1, ids, i + 1, Account(rep, ids[i], w1.ret, "deleted")))

batch_delete_emails(w, ids) == delete_loop(w, ids, 1, EmptyReport)

RECURSIVE mark_loop(_, _, _, _, _)
mark_loop(w, ids, add, i, rep) ==
  IF i > Len(ids) THEN Ret(w, Report(ids, rep))
  ELSE Do(mark_email(w, ids[i], add), LAMBDA w1 :
          mark_loop(w1, ids, add, i + 1,
                    Account(rep, ids[i], w1.ret,
                            IF add THEN "marked_read" ELSE "marked_unread")))

batch_mark_as_read(w, ids) == mark_loop(w, ids, TRUE, 1, EmptyReport)
batch_mark_as_unread(w, ids) == mark_loop(w, ids, FALSE, 1, EmptyReport)

\* ------------------------------------------------------- TaskExecutor
\* The result envelope of a handler.
NoData == [kind |-> "none"]
Envelope(s, m, d) == [success |-> s, message |-> m, data |-> d]

\* An exception leaves a method of TaskExecutor.
Raise(w) == [w EXCEPT !.exc = TRUE]

\* The email_id a request carries: a digit string (k = "num", its value n),
\* "latest", another non-empty string, or none at all (None).
Num(n) == [k |-> "num", n |-> n]
LATEST == [k |-> "latest", n |-> 0]
OTHERID == [k |-> "other", n |-> 0]
NOID == [k |-> "none", n |-> 0]

\* _get_email_by_id: "latest" is the head of a listing of one; anything else
\* is first fetched as it is, and only when that fails, and the token is a
\* digit string, looked up by position.  None has no isdigit.
_get_email_by_id_oldest(w, email_id) == get_email(w, 1, FALSE)

_get_email_by_id(w, email_id) ==
  IF email_id.k = "latest"
  THEN Do(get_recent_emails(w, 1, NoFolder), LAMBDA w1 :
          Ret(w1, IF w1.ret # <<>> THEN w1.ret[1] ELSE NONE))
  ELSE Do(get_email(w, email_id.n, FALSE), LAMBDA w1 :
          IF w1.ret # NONE THEN Ret(w1, [w1.ret EXCEPT !.original_uid = email_id.n])
          ELSE IF email_id.k = "none" THEN Raise(w1)
          ELSE IF email_id.k = "num" THEN get_email_by_index(w1, email_id.n, NoFolder)
          ELSE Ret(w1, NONE))

\* _get_emails_by_ids: what is not found is left out.
RECURSIVE ids_loop(_, _, _, _)
ids_loop(w, email_ids, i, emails) ==
  IF i > Len(email_ids) THEN Ret(w, emails)
  ELSE Do(_get_email_by_id(w, email_ids[i]), LAMBDA w1 :
          IF w1.exc THEN w1
          ELSE ids_loop(w1, email_ids, i + 1,
                        IF w1.ret = NONE THEN emails ELSE Append(emails, w1.ret)))

_get_emails_by_ids(w, email_ids) == ids_loop(w, email_ids, 1, <<>>)

\* [email.get("original_uid") for email in emails if email.get("original_uid")]
OriginalUids(emails) ==
  LET Has(e) == e.original_uid # 0
      es == SelectSeq(emails, Has)
  IN [i \in 1..Len(es) |-> es[i].original_uid]

\* The data of a batch envelope: the report of the batch method.
BatchData(result) ==
  [kind |-> "report", total |-> result.total, success |-> result.success,
   failed |-> result.failed, results |-> result.results]

\* A handler that stops because a call of it raised, or goes on with Then.
Missing(w) == Ret(w, Envelope(FALSE, "missing", NoData))
NotFound(w) == Ret(w, Envelope(FALSE, "not found", NoData))
\* (mutant) a batch without messages answers with an empty report.
NoEmails_reported(w) ==
  Ret(w, Envelope(TRUE, "batch done", BatchData(Report(<<>>, EmptyReport))))

NoEmails(w) == Ret(w, Envelope(FALSE, "no emails", NoData))
Outcome(w, ok, d) ==
  Ret(w, IF ok THEN Envelope(TRUE, "done", d) ELSE Envelope(FALSE, "failed", NoData))

\* reply_to_email: a message whose sender cannot be replied to is replaced
\* by the next identifier, MAX_ATTEMPTS times at most.
RECURSIVE reply_lookup(_, _, _, _)
reply_lookup(w, email_id, attempt, max_attempts) ==
  IF attempt >= max_attempts THEN Ret(w, NONE)
  ELSE LET current == IF email_id.k = "num" THEN Num(email_id.n + attempt) ELSE email_id
       IN Do(_get_email_by_id(w, current), LAMBDA w1 :
          IF w1.exc \/ w1.ret = NONE THEN w1
          ELSE IF w1.ret.u \notin NonReplyable THEN w1
          ELSE reply_lookup(w1, email_id, attempt + 1, max_attempts))

\* DeepSeekAPI.generate_reply(email_content): a text made from the content.
generate_reply(email_content) == <<"reply to">> \o email_content

reply_to_email(w, p) ==
  IF p.email_id.k = "none" THEN Raise(w)
  ELSE Do(reply_lookup(w, p.email_id, 0,
                              IF p.email_id.k = "num" THEN MAX_ATTEMPTS ELSE 1), LAMBDA w1 :
          IF w1.exc THEN w1
          ELSE IF w1.ret = NONE
          THEN Ret(get_recent_emails(w1, REPLY_LISTING, NoFolder), Envelope(FALSE, "cannot reply", NoData))
          ELSE Do(send_reply(w1, w1.ret, IF p.content # 0 THEN <<"custom", p.content>>
                                          ELSE generate_reply(body_of(w1.ret))), LAMBDA w2 :
                  Outcome(w2, w2.ret, [kind |-> "reply", u |-> w1.ret.u])))

\* "if count:" and int(count): a count is absent, an integer, or a string
\* int() refuses.
CountGiven(p) == p.count_kind = "bad" \/ (p.count_kind = "int" /\ p.count # 0)
Invalid(w) == Ret(w, Envelope(FALSE, "invalid count", NoData))

\* (mutant) a batch with a failed item fails as a whole.
Batched_strict(w) ==
  Ret(w, IF w.ret.failed = 0 THEN Envelope(TRUE, "batch done", BatchData(w.ret))
         ELSE Envelope(FALSE, "failed", NoData))

\* A batch handler's envelope around the report of the batch method.
Batched(w) == Ret(w, Envelope(TRUE, "batch done", BatchData(w.ret)))

_archive_emails_by_ids(w, email_ids, folder_name) ==
  Do(_get_emails_by_ids(w, email_ids), LAMBDA w1 :
     IF w1.exc THEN w1
     ELSE IF w1.ret = <<>> THEN NoEmails(w1)
     ELSE Batched(batch_archive_emails(w1, OriginalUids(w1.ret), folder_name)))

_archive_multiple_emails(w, count, folder_name) ==
  Do(get_recent_emails(w, count, NoFolder), LAMBDA w1 :
     IF w1.ret = <<>> THEN NoEmails(w1)
     ELSE Batched(batch_archive_emails(w1, OriginalUids(w1.ret), folder_name)))

archive_email(w, p) ==
  LET folder_name == IF p.folder_name = "" THEN ARCHIVE_FOLDER ELSE p.folder_name
  IN IF p.batch_operation /\ CountGiven(p)
     THEN IF p.count_kind = "bad" THEN Invalid(w)
          ELSE _archive_multiple_emails(w, p.count, folder_name)
     ELSE IF p.has_ids THEN _archive_emails_by_ids(w, p.email_ids, folder_name)
     ELSE IF p.email_id.k = "none" THEN Missing(w)
     ELSE Do(_get_email_by_id(w, p.email_id), LAMBDA w1 :
             IF w1.exc THEN w1
             ELSE IF w1.ret = NONE THEN NotFound(w1)
             ELSE Do(archive_email_to_folder(w1, w1.ret.original_uid, folder_name), LAMBDA w2 :
                     Outcome(w2, w2.ret, [kind |-> "one", u |-> w1.ret.u])))

_delete_emails_by_ids(w, email_ids) ==
  Do(_get_emails_by_ids(w, email_ids), LAMBDA w1 :
     IF w1.exc THEN w1
     ELSE IF w1.ret = <<>> THEN NoEmails(w1)
     ELSE Batched(batch_delete_emails(w1, OriginalUids(w1.ret))))

_delete_multiple_emails(w, count) ==
  Do(get_recent_emails(w, count, NoFolder), LAMBDA w1 :
     IF w1.ret = <<>> THEN NoEmails(w1)
     ELSE Batched(batch_delete_emails(w1, OriginalUids(w1.ret))))

delete_email_task(w, p) ==
  IF p.batch_operation /\ CountGiven(p)
  THEN IF p.count_kind = "bad" THEN Invalid(w)
       ELSE _delete_multiple_emails(w, p.count)
  ELSE IF p.has_ids THEN _delete_emails_by_ids(w, p.email_ids)
  ELSE IF p.email_id.k = "none" THEN Missing(w)
  ELSE Do(_get_email_by_id(w, p.email_id), LAMBDA w1 :
          IF w1.exc THEN w1
          ELSE IF w1.ret = NONE THEN NotFound(w1)
          ELSE Do(delete_email(w1, w1.ret.original_uid), LAMBDA w2 :
                  Outcome(w2, w2.ret, [kind |-> "one", u |-> w1.ret.u])))

_forward_to_single_recipient(w, email_info, forward_to) ==
  Do(forward_email(w, email_info, forward_to), LAMBDA w1 :
     Outcome(w1, w1.ret, [kind |-> "one", u |-> email_info.u]))

_forward_to_multiple_recipients(w, email_info, recipients) ==
  Batched(batch_forward_email(w, email_info, recipients))

\* _forward_multiple_emails: the listing's messages go to one recipient, the
\* submission session being torn down before each send; an item is tagged
\* with its position.
RECURSIVE forward_emails_loop(_, _, _, _, _)
forward_emails_loop(w, emails, forward_to, i, rep) ==
  IF i > Len(emails) THEN Ret(w, Report(emails, rep))
  ELSE Do(forward_email(fresh_smtp(w), emails[i], forward_to), LAMBDA w1 :
          forward_emails_loop(w1, emails, forward_to, i + 1,
                              Account(rep, i, w1.ret, "forwarded")))

_forward_multiple_emails(w, count, forward_to) ==
  Do(get_recent_emails(w, count, NoFolder), LAMBDA w1 :
     IF w1.ret = <<>> THEN NoEmails(w1)
     ELSE Batched(forward_emails_loop(w1, w1.ret, forward_to, 1, EmptyReport)))

forward_email_task(w, p) ==
  IF p.batch_operation /\ p.forward_to = 0 THEN Missing(w)
  ELSE IF p.batch_operation /\ CountGiven(p)
  THEN IF p.count_kind = "bad" THEN Invalid(w)
       ELSE _forward_multiple_emails(w, p.count, p.forward_to)
  ELSE Do(_get_email_by_id(w, p.email_id), LAMBDA w1 :
          IF w1.exc THEN w1
          ELSE IF w1.ret = NONE THEN NotFound(w1)
          ELSE IF Len(p.recipients) > 1
          THEN _forward_to_multiple_recipients(w1, w1.ret, p.recipients)
          ELSE IF p.forward_to # 0
          THEN _forward_to_single_recipient(w1, w1.ret, p.forward_to)
          ELSE IF Len(p.recipients) = 1
          THEN _forward_to_single_recipient(w1, w1.ret, p.recipients[1])
          ELSE Missing(w1))

_mark_multiple(w, email_ids, add) ==
  Do(_get_emails_by_ids(w, email_ids), LAMBDA w1 :
     IF w1.exc THEN w1
     ELSE IF w1.ret = <<>> THEN NoEmails(w1)
     ELSE Batched(mark_loop(w1, OriginalUids(w1.ret), add, 1, EmptyReport)))

mark_email_task(w, p, add) ==
  IF p.has_ids THEN _mark_multiple(w, p.email_ids, add)
  ELSE IF p.email_id.k = "none" THEN Missing(w)
  ELSE Do(_get_email_by_id(w, p.email_id), LAMBDA w1 :
          IF w1.exc THEN w1
          ELSE IF w1.ret = NONE THEN NotFound(w1)
          ELSE Do(mark_email(w1, w1.ret.original_uid, add), LAMBDA w2 :
                  Outcome(w2, w2.ret, [kind |-> "one", u |-> w1.ret.u])))

mark_email_as_read_task(w, p) == mark_email_task(w, p, TRUE)
mark_email_as_unread_task(w, p) == mark_email_task(w, p, FALSE)

\* A handler that looks a message up and reports on it without changing
\* anything (the DeepSeek calls of these handlers answer with a default when
\* the service fails).
Lookup(w, email_id) ==
  Do(_get_email_by_id(w, email_id), LAMBDA w1 :
     IF w1.exc THEN w1
     ELSE IF w1.ret = NONE THEN NotFound(w1)
     ELSE Outcome(w1, TRUE, [kind |-> "one", u |-> w1.ret.u]))

\* The emails of a listing that match a search: a keyword or a sender is
\* modelled by the message it matches (0: not given).
Matched(emails, content, sender) ==
  LET Is(e) == (content = 0 \/ e.u = content) /\ (sender = 0 \/ e.u = sender)
  IN SelectSeq(emails, Is)

Listed(w, emails) ==
  Ret(w, Envelope(TRUE, "found", [kind |-> "emails", count |-> Len(emails),
                                  emails |-> emails]))

_summarize_multiple_emails(w, count) ==
  Do(get_recent_emails(w, count, NoFolder), LAMBDA w1 :
     IF w1.ret = <<>> THEN NoEmails(w1) ELSE Listed(w1, w1.ret))

summarize_email(w, p) ==
  LET none == p.email_id.k = "none"
      given == CountGiven(p) \/ (p.batch_operation /\ none /\ p.sender = 0)
      count == IF CountGiven(p) THEN p.count ELSE SUMMARY_COUNT
  IN IF given /\ none
     THEN IF p.count_kind = "bad" THEN Invalid(w)
          ELSE _summarize_multiple_emails(w, count)
     ELSE IF none /\ p.sender # 0
     THEN Do(get_recent_emails(w, INDEX_COUNT, NoFolder), LAMBDA w1 :
             LET matched_emails == Matched(w1.ret, 0, p.sender)
          IN IF matched_emails = <<>> THEN NotFound(w1)
             ELSE Lookup(w1, Num(matched_emails[1].id)))
     ELSE IF none THEN Missing(w)
     ELSE Lookup(w, p.email_id)

analyze_email_priority(w, p) == Lookup(w, p.email_id)

\* generate_auto_reply: the reply text is returned to the caller, nothing
\* is kept.
generate_auto_reply_sending(w, p) == reply_to_email(w, p)

generate_auto_reply(w, p) ==
  Do(_get_email_by_id(w, p.email_id), LAMBDA w1 :
     IF w1.exc THEN w1
     ELSE IF w1.ret = NONE THEN NotFound(w1)
     ELSE Outcome(w1, TRUE, [kind |-> "draft", u |-> w1.ret.u, email_id |-> p.email_id,
                             reply_content |-> generate_reply(body_of(w1.ret))]))

\* batch_classify_emails: an item that is not found, or whose lookup
\* raises, counts as failed.
RECURSIVE classify_loop(_, _, _, _)
classify_loop(w, email_ids, i, rep) ==
  IF i > Len(email_ids) THEN Ret(w, Report(email_ids, rep))
  ELSE Do(_get_email_by_id(w, email_ids[i]), LAMBDA w1 :
          LET ok == ~w1.exc /\ w1.ret # NONE
       IN classify_loop([w1 EXCEPT !.exc = FALSE], email_ids, i + 1,
                        IF ok THEN Account(rep, email_ids[i], TRUE, "classified")
                        ELSE [rep EXCEPT !.failed = @ + 1]))

batch_classify_emails(w, p) ==
  IF p.email_ids = <<>> THEN Missing(w)
  ELSE Batched(classify_loop(w, p.email_ids, 1, EmptyReport))

move_email_to_folder_task(w, p) ==
  IF p.folder_name = "" THEN Missing(w)
  ELSE Do(_get_email_by_id(w, p.email_id), LAMBDA w1 :
          IF w1.exc THEN w1
          ELSE IF w1.ret = NONE THEN NotFound(w1)
          ELSE Do(move_email_to_folder(w1, w1.ret.original_uid, p.folder_name), LAMBDA w2 :
                  Outcome(w2, w2.ret, [kind |-> "one", u |-> w1.ret.u])))

list_recent_emails(w, p) ==
  Do(get_recent_emails(w, IF p.count_kind = "int" THEN p.count ELSE LIST_COUNT, NoFolder), LAMBDA w1 :
     IF w1.ret = <<>> THEN NotFound(w1) ELSE Listed(w1, w1.ret))

search_emails(w, p) ==
  IF p.content = 0 /\ p.sender = 0 THEN Missing(w)
  ELSE Do(get_recent_emails(w, INDEX_COUNT, NoFolder), LAMBDA w1 :
          LET matched_emails == Matched(w1.ret, p.content, p.sender)
       IN IF matched_emails = <<>> THEN NotFound(w1) ELSE Listed(w1, matched_emails))

get_email_detail(w, p) ==
  IF p.email_id.k = "none" THEN Missing(w) ELSE Lookup(w, p.email_id)

\* compose_email: DeepSeekAPI has neither generate_email_subject nor
\* generate_email_content, so the calls raise AttributeError.
compose_email(w, p) ==
  IF p.to_addr = 0 THEN Missing(w)
  ELSE IF ~p.subject /\ p.content # 0 THEN Raise(w)
  ELSE IF p.content = 0 THEN Missing(w)
  ELSE Raise(w)

\* handle_unknown_intent: DeepSeekAPI has no chat either; the handler
\* catches what its call raises.
handle_unknown_intent(w, p) ==
  IF p.content = 0 THEN Ret(w, Envelope(FALSE, "cannot understand", NoData))
  ELSE Ret([Raise(w) EXCEPT !.exc = FALSE], Envelope(FALSE, "assistant hint", NoData))

\* self.task_handlers
Intents ==
  {"reply_email", "archive_email", "delete_email", "forward_email", "mark_read",
   "mark_unread", "summarize_email", "analyze_priority", "batch_classify",
   "move_email", "generate_reply", "list_emails", "search_email", "compose_email",
   "get_email_detail", "unknown"}

task_handlers(intent, w, p) ==
  CASE intent = "reply_email" -> reply_to_email(w, p)
    [] intent = "archive_email" -> archive_email(w, p)
    [] intent = "delete_email" -> delete_email_task(w, p)
    [] intent = "forward_email" -> forward_email_task(w, p)
    [] intent = "mark_read" -> mark_email_as_read_task(w, p)
    [] intent = "mark_unread" -> mark_email_as_unread_task(w, p)
    [] intent = "summarize_email" -> summarize_email(w, p)
    [] intent = "analyze_priority" -> analyze_email_priority(w, p)
    [] intent = "batch_classify" -> batch_classify_emails(w, p)
    [] intent = "move_email" -> move_email_to_folder_task(w, p)
    [] intent = "generate_reply" -> generate_auto_reply(w, p)
    [] intent = "list_emails" -> list_recent_emails(w, p)
    [] intent = "search_email" -> search_emails(w, p)
    [] intent = "compose_email" -> compose_email(w, p)
    [] intent = "get_email_detail" -> get_email_detail(w, p)
    [] OTHER -> handle_unknown_intent(w, p)

\* (mutant) what the handler raises is let through.
caught_nothing(w) == w

\* "except Exception as e": the exception becomes an envelope.
caught(w) ==
  IF w.exc THEN Ret([w EXCEPT !.exc = FALSE], Envelope(FALSE, "exception", NoData))
  ELSE w

\* execute_task(intent, parameters)
execute_task(w, intent, p) ==
  caught(task_handlers(IF intent \in Intents THEN intent ELSE "unknown", w, p))

\* ---------------------------------------------------------------- server
\* What an endpoint answers: the status of the response (HTTPException
\* carries the others) and, with 200, the body.
Http(status) == [status |-> status, success |-> status = 200]

\* POST /api/reply (reply_email_direct): email_id and content come with the
\* request; the server keeps no reply text between requests.  Without one of
\* them the answer is 400; the 404 raised inside the try is caught there and
\* becomes 500.
reply_email_direct(w, email_id, content) ==
  IF email_id.k = "none" \/ content = <<>> THEN Ret(w, Http(400))
  ELSE Do(get_email(w, email_id.n, FALSE), LAMBDA w1 :
          IF w1.ret = NONE THEN Ret(w1, Http(500))
          ELSE Do(send_reply(w1, w1.ret, content), LAMBDA w2 :
                  Ret(w2, Http(IF w2.ret THEN 200 ELSE 500))))

\* ------------------------------------------------------------- actions
\* A behaviour is: the environment provides a mailbox; the session is set
\* up, used and possibly broken (connect, disconnect, a connection dying);
\* then one request is executed on what that left (pc: "ready" -> "done").
\* What the caller gets when the request raises instead of returning.
RAISED == [raised |-> TRUE]

\* What the caller of a method without a result gets when it returns.
RETURNED == [raised |-> FALSE]

Commit(o, w) ==
  /\ box' = w.box /\ deleted' = w.deleted /\ seen' = w.seen
  /\ imap' = w.imap /\ smtp' = w.smtp /\ sel' = w.sel
  /\ op' = o /\ ret' = (IF w.exc THEN RAISED ELSE w.ret)
  /\ log' = w.log /\ pre' = Snapshot

Request(o, w) == pc = "ready" /\ pc' = "done" /\ Commit(o, w) /\ UNCHANGED server

\* Session set-up before the request: only its effect on the session stays;
\* op, ret, log and pre describe the request.
Session(w) ==
  /\ pc = "ready" /\ imap' = w.imap /\ smtp' = w.smtp /\ sel' = w.sel
  /\ UNCHANGED <<box, deleted, seen, op, ret, log, pre, pc>>
  /\ UNCHANGED server

Ids == 1..(MaxMsgs + 1)
Recipients == 1..MaxRcpt

\* The mailbox: n messages in INBOX in arrival order, some flagged.
Mailbox(n, del, sn) ==
  /\ box = [f \in ServerFolders |-> IF f = DEFAULT_FOLDER THEN [i \in 1..n |-> i] ELSE <<>>]
  /\ deleted = del /\ seen = sn

\* EmailClient.__init__: no connection.
Constructed ==
  /\ imap = "None" /\ smtp = "None" /\ sel = "none" /\ pc = "ready"
  /\ op = [name |-> "init"] /\ ret = FALSE /\ log = <<>>
  /\ arrived = <<>> /\ running = <<>> /\ inflight = {} /\ wire = <<>>
  /\ pre = [box |-> box, deleted |-> deleted, seen |-> seen, imap |-> imap,
            smtp |-> smtp, sel |-> sel]

\* The environment: a connection dies while the client keeps its handle.
ImapDrop ==
  /\ pc = "ready" /\ imap \in {"Auth", "Unauth"}
  /\ imap' = "Dead"
  /\ UNCHANGED <<box, deleted, seen, smtp, sel, op, ret, log, pre, pc>>
  /\ UNCHANGED server

SmtpDrop ==
  /\ pc = "ready" /\ smtp \in {"Auth", "Unauth"}
  /\ smtp' = "Dead"
  /\ UNCHANGED <<box, deleted, seen, imap, sel, op, ret, log, pre, pc>>
  /\ UNCHANGED server

ConnectImap ==
  /\ pc = "ready"
  /\ \E f \in FaultScripts : Session(connect_imap(World(f)))

ConnectSmtp ==
  /\ pc = "ready"
  /\ \E f \in FaultScripts : Session(connect_smtp(World(f)))

DeleteEmail ==
  /\ pc = "ready"
  /\ \E f \in FaultScripts, m \in Ids :
      Request([name |-> "delete_email", m |-> m], delete_email(World(f), m))

ArchiveEmail ==
  /\ pc = "ready"
  /\ \E f \in FaultScripts, m \in Ids, folder \in {ARCHIVE_FOLDER, "Nowhere"} :
      Request([name |-> "archive_email_to_folder", m |-> m, folder |-> folder],
            archive_email_to_folder(World(f), m, folder))

MoveEmail ==
  /\ pc = "ready"
  /\ \E f \in FaultScripts, m \in Ids, folder \in {ARCHIVE_FOLDER, "Nowhere"} :
      Request([name |-> "move_email_to_folder", m |-> m, folder |-> folder],
            move_email_to_folder(World(f), m, folder))

MarkRead ==
  /\ pc = "ready"
  /\ \E f \in FaultScripts, m \in Ids :
      Request([name |-> "mark_email_as_read", m |-> m], mark_email_as_read(World(f), m))

MarkUnread ==
  /\ pc = "ready"
  /\ \E f \in FaultScripts, m \in Ids :
      Request([name |-> "mark_email_as_unread", m |-> m], mark_email_as_unread(World(f), m))

ForwardEmail ==
  /\ pc = "ready"
  /\ \E f \in FaultScripts, u \in Msgs, t \in Recipients :
      Request([name |-> "forward_email", u |-> u, t |-> t], forward_email(World(f), Fetched(u), t))

SendReply ==
  /\ pc = "ready"
  /\ \E f \in FaultScripts, u \in Msgs :
      Request([name |-> "send_reply", u |-> u], send_reply(World(f), Fetched(u), <<"reply">>))

GetRecentEmails ==
  /\ pc = "ready"
  /\ \E f \in FaultScripts, count \in 0..MaxMsgs :
      Request([name |-> "get_recent_emails", count |-> count],
              get_recent_emails(World(f), count, NoFolder))

CheckImapConnection ==
  /\ pc = "ready"
  /\ \E f \in FaultScripts :
      Request([name |-> "_check_imap_connection"], _check_imap_connection(World(f)))

EnsureImapConnection ==
  /\ pc = "ready"
  /\ \E f \in FaultScripts :
      Request([name |-> "_ensure_imap_connection"], _ensure_imap_connection(World(f)))

\* _select_folder(folder) on a folder the server has or has not, with up to
\* MaxBatchFaults commands failing.
SelectFolder ==
  /\ pc = "ready"
  /\ \E f \in BatchScripts, folder \in {DEFAULT_FOLDER, "Nowhere"} :
      Request([name |-> "_select_folder", folder |-> folder],
              _select_folder(World(f), folder))

\* A client that marks a message read, then unread, and fetches it (whole or
\* headers only) to look at its read flag; the server reports the flags of a
\* fetch as they were before it or as they are after it.
mark_read_unread_fetch(w, m, lightweight) ==
  Do(mark_email_as_read(w, m), LAMBDA w1 :
     Do(mark_email_as_unread(w1, m), LAMBDA w2 :
        Do(get_email(w2, m, lightweight), LAMBDA w3 :
           Ret(w3, [read |-> w1.ret, unread |-> w2.ret, email |-> w3.ret]))))

MarkReadUnreadFetch ==
  /\ pc = "ready"
  /\ \E f \in FaultScripts, m \in Ids, lightweight \in BOOLEAN, flags \in {"before", "after"} :
      Request([name |-> "mark_read_unread_fetch", m |-> m, lightweight |-> lightweight,
               flags |-> flags],
              mark_read_unread_fetch([World(f) EXCEPT !.flags = flags], m, lightweight))

\* connect_imap() as the request, with up to MaxBatchFaults commands failing.
ConnectImapCall ==
  /\ pc = "ready"
  /\ \E f \in BatchScripts :
      Request([name |-> "connect_imap"], connect_imap(World(f)))

\* disconnect_imap() / disconnect_smtp(): they return None.
DisconnectImap ==
  /\ pc = "ready"
  /\ \E f \in FaultScripts :
      Request([name |-> "disconnect_imap"], Ret(disconnect_imap(World(f)), RETURNED))

DisconnectSmtp ==
  /\ pc = "ready"
  /\ \E f \in FaultScripts :
      Request([name |-> "disconnect_smtp"], Ret(disconnect_smtp(World(f)), RETURNED))

\* Single-message operations of EmailClient on any mailbox.
InitSingle ==
  /\ \E n \in 0..MaxMsgs : \E del \in SUBSET (1..n) : \E sn \in SUBSET ((1..n) \ del) :
       Mailbox(n, del, sn)
  /\ Constructed

NextSingle ==
  \/ ImapDrop
  \/ SmtpDrop
  \/ ConnectImap
  \/ ConnectSmtp
  \/ DeleteEmail
  \/ ArchiveEmail
  \/ MoveEmail
  \/ MarkRead
  \/ MarkUnread
  \/ ForwardEmail
  \/ SendReply
  \/ GetRecentEmails
  \/ CheckImapConnection
  \/ EnsureImapConnection
  \/ SelectFolder
  \/ DisconnectImap
  \/ DisconnectSmtp
  \/ ConnectImapCall
  \/ MarkReadUnreadFetch

SpecSingle == InitSingle /\ [][NextSingle]_vars

\* Lists of distinct elements of S, of length at most k.
Lists(S, k) ==
  {q \in UNION {[1..n -> S] : n \in 0..k} : \A i, j \in DOMAIN q : i # j => q[i] # q[j]}

BatchForward ==
  /\ pc = "ready"
  /\ \E f \in BatchScripts, u \in {1}, rs \in Lists(Recipients, MaxList) :
      Request([name |-> "batch_forward_email", u |-> u, items |-> rs],
            batch_forward_email(World(f), Fetched(u), rs))

BatchArchive ==
  /\ pc = "ready"
  /\ \E f \in BatchScripts, ids \in Lists(Ids, MaxList), folder \in {ARCHIVE_FOLDER} :
      Request([name |-> "batch_archive_emails", items |-> ids, folder |-> folder],
            batch_archive_emails(World(f), ids, folder))

BatchDelete ==
  /\ pc = "ready"
  /\ \E f \in BatchScripts, ids \in Lists(Ids, MaxList) :
      Request([name |-> "batch_delete_emails", items |-> ids],
            batch_delete_emails(World(f), ids))

BatchMarkRead ==
  /\ pc = "ready"
  /\ \E f \in BatchScripts, ids \in Lists(Ids, MaxList) :
      Request([name |-> "batch_mark_as_read", items |-> ids],
            batch_mark_as_read(World(f), ids))

BatchMarkUnread ==
  /\ pc = "ready"
  /\ \E f \in BatchScripts, ids \in Lists(Ids, MaxList) :
      Request([name |-> "batch_mark_as_unread", items |-> ids],
            batch_mark_as_unread(World(f), ids))

\* The parameters of a request to TaskExecutor: every key absent ...
NoParameters ==
  [email_id |-> NOID, has_ids |-> FALSE, email_ids |-> <<>>,
   batch_operation |-> FALSE, count_kind |-> "absent", count |-> 0,
   forward_to |-> 0, recipients |-> <<>>, folder_name |-> "", sender |-> 0,
   content |-> 0, to_addr |-> 0, subject |-> FALSE]

\* ... but an email_id, a list of email_ids, or a count of recent messages.
One(t) == [NoParameters EXCEPT !.email_id = t]
Many(ts) == [NoParameters EXCEPT !.has_ids = TRUE, !.email_ids = ts]
Recent(c) == [NoParameters EXCEPT !.batch_operation = TRUE, !.count_kind = "int", !.count = c]

Numbers_ == {Num(n) : n \in Ids}
Tokens == Numbers_ \cup {LATEST, OTHERID, NOID}

\* The batch requests: explicit lists of positions, or the N most recent.
BatchIntents == {"delete_email", "archive_email", "mark_read", "mark_unread"}

\* The parameters of a batch request: a list of positions or the N most
\* recent; for a forward, the N most recent to one recipient or the latest
\* message to several.
BatchParameters(intent) ==
  IF intent = "forward_email"
  THEN {[Recent(c) EXCEPT !.forward_to = 1] : c \in 1..MaxMsgs}
         \cup {[One(LATEST) EXCEPT !.recipients = rs] : rs \in Lists(Recipients, MaxList)}
  ELSE {Many(ts) : ts \in Lists(Numbers_, MaxList)} \cup {Recent(c) : c \in 1..MaxMsgs}

BatchTask ==
  /\ pc = "ready"
  /\ \E f \in TaskScripts, intent \in BatchIntents \cup {"forward_email"} :
       \E p \in BatchParameters(intent) :
         Request([name |-> "execute_task", intent |-> intent, p |-> p],
                 execute_task(World(f), intent, p))

\* Batch operations of EmailClient on a full mailbox.
InitBatch == Mailbox(MaxMsgs, {}, {}) /\ Constructed

NextBatch ==
  \/ ImapDrop
  \/ SmtpDrop
  \/ ConnectImap
  \/ ConnectSmtp
  \/ BatchForward
  \/ BatchArchive
  \/ BatchDelete
  \/ BatchMarkRead
  \/ BatchMarkUnread
  \/ BatchTask

SpecBatch == InitBatch /\ [][NextBatch]_vars

\* The requests of one kind of task: the parameters its handler reads.
FewTokens == {Num(1), Num(2), LATEST, NOID}
Counts ==
  {[NoParameters EXCEPT !.batch_operation = b, !.count_kind = k, !.count = c] :
     b \in BOOLEAN, k \in {"int"}, c \in (-1)..MaxCount}
  \cup {[NoParameters EXCEPT !.batch_operation = TRUE, !.count_kind = "bad"]}

ParametersOf(intent) ==
  CASE intent \in {"reply_email", "analyze_priority", "generate_reply", "get_email_detail"} ->
         {One(t) : t \in Tokens}
    [] intent \in {"delete_email", "archive_email", "mark_read", "mark_unread"} ->
         {One(t) : t \in Tokens} \cup {Many(ts) : ts \in Lists(FewTokens, MaxCount)}
           \cup Counts
    [] intent = "move_email" ->
         {[One(t) EXCEPT !.folder_name = f] : t \in Tokens, f \in {"", ARCHIVE_FOLDER}}
    [] intent = "forward_email" ->
         {[One(t) EXCEPT !.forward_to = r] : t \in Tokens, r \in 0..1}
           \cup {[p EXCEPT !.forward_to = r] : p \in Counts, r \in 0..1}
    [] intent = "summarize_email" ->
         {[One(t) EXCEPT !.sender = u] : t \in {Num(1), NOID}, u \in 0..1} \cup Counts
    [] intent = "batch_classify" -> {Many(ts) : ts \in Lists(FewTokens, MaxCount)}
    [] intent = "list_emails" -> Counts \cup {NoParameters}
    [] intent = "search_email" ->
         {[NoParameters EXCEPT !.content = c, !.sender = u] : c \in 0..1, u \in 0..MaxCount}
    [] intent = "compose_email" ->
         {[NoParameters EXCEPT !.to_addr = t, !.subject = b, !.content = c] :
            t \in 0..1, b \in BOOLEAN, c \in 0..1}
    [] OTHER -> {[NoParameters EXCEPT !.content = c] : c \in 0..1}

\* An intent tag without a handler.
NoSuchIntent == "chat"

ExecuteTask ==
  /\ pc = "ready"
  /\ \E f \in FaultScripts, intent \in Intents \cup {NoSuchIntent} :
       \E p \in ParametersOf(intent) :
         Request([name |-> "execute_task", intent |-> intent, p |-> p],
                 execute_task(World(f), intent, p))

\* A client that has a reply generated for a message and then confirms,
\* twice, with the identity and the text (as the endpoint wants them) or
\* without.
generate_then_confirm(w, email_id, explicit) ==
  Do(caught(generate_auto_reply(w, One(email_id))), LAMBDA w1 :
     LET staged == w1.ret
         id == IF explicit /\ staged.success THEN staged.data.email_id ELSE NOID
         content == IF explicit /\ staged.success THEN staged.data.reply_content ELSE <<>>
     IN Do(reply_email_direct(w1, id, content), LAMBDA w2 :
           Do(reply_email_direct(w2, NOID, <<>>), LAMBDA w3 :
              Ret(w3, [staged |-> staged, confirmed |-> w2.ret, again |-> w3.ret]))))

GenerateThenConfirm ==
  /\ pc = "ready"
  /\ \E f \in FaultScripts, t \in {Num(1), Num(2), LATEST}, explicit \in BOOLEAN :
       Request([name |-> "generate_then_confirm", email_id |-> t, explicit |-> explicit],
               generate_then_confirm(World(f), t, explicit))

\* "latest" resolved, then a listing of one taken of the same mailbox.
resolve_latest(w) ==
  Do(_get_email_by_id(w, LATEST), LAMBDA w1 :
     Do(get_recent_emails(w1, 1, NoFolder), LAMBDA w2 :
        Ret(w2, [latest |-> w1.ret, snapshot |-> w2.ret])))

ResolveLatest ==
  /\ pc = "ready"
  /\ \E f \in FaultScripts :
       Request([name |-> "resolve_latest"], resolve_latest(World(f)))

\* ------------------------------------------------------------------ NLU
\* The text of a command, cut where email_pattern cuts it: a piece is an
\* address (of mailbox a, written in lower case or with capitals) or other
\* text (a = 0).
Word == [a |-> 0, capitals |-> FALSE]
Addresses == [a : 1..MaxAddr, capitals : BOOLEAN]
Texts == UNION {[1..n -> Addresses \cup {Word}] : n \in 1..MaxText}

\* email.lower()
email_lower(email) == [email EXCEPT !.capitals = FALSE]

\* email_pattern.findall(text)
findall(text) == SelectSeq(text, LAMBDA piece : piece.a # 0)

\* _extract_email_addresses: the addresses of the text, the first spelling
\* of each, in the order of first appearance.
RECURSIVE unique_emails(_, _, _, _)
unique_emails(emails, i, seen_, unique) ==
  IF i > Len(emails) THEN unique
  ELSE IF email_lower(emails[i]) \notin seen_
  THEN unique_emails(emails, i + 1, seen_ \cup {email_lower(emails[i])},
                     Append(unique, emails[i]))
  ELSE unique_emails(emails, i + 1, seen_, unique)

_extract_email_addresses(text) == unique_emails(findall(text), 1, {}, <<>>)

\* What the model answers to the prompt of _extract_parameters_deepseek,
\* following its rules: an email_id or none, batch_operation, a count or none
\* (never an address).
DeepseekParams ==
  [email_id : {NOID, Num(1), LATEST}, batch_operation : BOOLEAN, count : {0, 2}]

NoAddress == <<>>

\* _extract_parameters_hybrid for intent forward_email, with
\* _post_process_parameters: a key that is absent is NoAddress, <<>> or 0.
_extract_parameters_hybrid(user_input, deepseek_params) ==
  LET email_addresses == _extract_email_addresses(user_input)
      one == Len(email_addresses) = 1
      more == Len(email_addresses) > 1
  IN [email_address |-> IF one \/ more THEN <<email_addresses[1]>> ELSE NoAddress,
      forward_to |-> IF one \/ more THEN <<email_addresses[1]>> ELSE NoAddress,
      recipients |-> IF more THEN email_addresses ELSE <<>>,
      email_id |-> deepseek_params.email_id,
      batch_operation |-> deepseek_params.batch_operation,
      count |-> deepseek_params.count]

\* validate_parameters("forward_email", parameters)
validate_parameters(parameters) ==
  IF parameters.batch_operation
  THEN IF parameters.count = 0 THEN FALSE
       ELSE IF parameters.email_address = NoAddress /\ parameters.recipients = <<>>
       THEN FALSE
       ELSE TRUE
  ELSE ~(parameters.email_address = NoAddress /\ parameters.recipients = <<>>)

\* The parameters as forward_email_task reads them: forward_to or
\* email_address, the recipients, each by its mailbox.
Read(parameters) ==
  [NoParameters EXCEPT
     !.email_id = parameters.email_id,
     !.batch_operation = parameters.batch_operation,
     !.count_kind = IF parameters.count = 0 THEN "absent" ELSE "int",
     !.count = parameters.count,
     !.forward_to = IF parameters.forward_to # NoAddress THEN parameters.forward_to[1].a
                    ELSE IF parameters.email_address # NoAddress
                    THEN parameters.email_address[1].a ELSE 0,
     !.recipients = [i \in DOMAIN parameters.recipients |-> parameters.recipients[i].a]]

\* process_input for a forward command: parse, validate, execute.
process_input(w, user_input, deepseek_params) ==
  LET parameters == _extract_parameters_hybrid(user_input, deepseek_params)
      is_valid == validate_parameters(parameters)
  IN IF ~is_valid
     THEN Ret(w, [parameters |-> parameters, is_valid |-> FALSE,
                  result |-> Envelope(FALSE, "invalid", NoData)])
     ELSE Do(caught(forward_email_task(w, Read(parameters))), LAMBDA w1 :
             Ret(w1, [parameters |-> parameters, is_valid |-> TRUE, result |-> w1.ret]))

ForwardCommand ==
  /\ pc = "ready"
  /\ \E user_input \in Texts, deepseek_params \in DeepseekParams :
       Request([name |-> "process_input", user_input |-> user_input,
                deepseek_params |-> deepseek_params],
               process_input(World(<<>>), user_input, deepseek_params))

\* ----------------------------------------------- answers of the model
\* The characters of a response: braces, "k" for a member of an object
\* (a key with a scalar value), "t" for any other text.
Chars == {"{", "}", "k", "t"}
Responses == UNION {[1..n -> Chars] : n \in 0..MaxResponse}

\* response.find("{"), response.rfind("}"): positions from 1, 0 for -1.
find(response, c) ==
  IF \E i \in DOMAIN response : response[i] = c
  THEN CHOOSE i \in DOMAIN response :
         response[i] = c /\ \A j \in DOMAIN response : response[j] = c => i <= j
  ELSE 0

rfind(response, c) ==
  IF \E i \in DOMAIN response : response[i] = c
  THEN CHOOSE i \in DOMAIN response :
         response[i] = c /\ \A j \in DOMAIN response : response[j] = c => j <= i
  ELSE 0

\* The JSON parser on an object that opens at position i: the position of
\* the brace that closes it, 0 when the text is not an object.  The members
\* are scalars ("k") and objects.
RECURSIVE members(_, _)
members(str, j) ==
  IF j > Len(str) THEN 0
  ELSE IF str[j] = "}" THEN j
  ELSE IF str[j] = "k" THEN members(str, j + 1)
  ELSE IF str[j] = "{"
  THEN LET e == members(str, j + 1) IN IF e = 0 THEN 0 ELSE members(str, e + 1)
  ELSE 0

\* json.loads(json_str): the object, or JSONDecodeError (text that is not
\* one object, or has anything after it).
JSONDecodeError == <<"JSONDecodeError">>

json_loads(json_str) ==
  IF json_str # <<>> /\ json_str[1] = "{" /\ members(json_str, 2) = Len(json_str)
  THEN json_str
  ELSE JSONDecodeError

\* The extraction both callers make: from the first "{" to the last "}".
extract_json(response) ==
  LET start_idx == find(response, "{")
      end_idx == rfind(response, "}")
  IN IF start_idx # 0 /\ end_idx > start_idx
     THEN json_loads(SubSeq(response, start_idx, end_idx))
     ELSE JSONDecodeError

\* DeepSeekAPI.analyze_email_content: the analysis, or the default one.
DefaultAnalysis == <<"default">>

analyze_email_content(response) ==
  IF response = <<>> \/ extract_json(response) = JSONDecodeError THEN DefaultAnalysis
  ELSE extract_json(response)

\* NLUEngine._extract_parameters_deepseek: the parameters, or none.
_extract_parameters_deepseek(response) ==
  IF response = <<>> \/ extract_json(response) = JSONDecodeError THEN <<>>
  ELSE extract_json(response)

AnalyzeEmailContent ==
  /\ pc = "ready"
  /\ \E response \in Responses :
       Request([name |-> "analyze_email_content", response |-> response],
               Ret(World(<<>>), [analysis |-> analyze_email_content(response),
                                 parameters |-> _extract_parameters_deepseek(response)]))

\* The requests to TaskExecutor on any mailbox.
InitTask ==
  /\ \E n \in 0..MaxMsgs : Mailbox(n, {}, {})
  /\ Constructed

NextTask ==
  \/ ImapDrop
  \/ SmtpDrop
  \/ ConnectImap
  \/ ConnectSmtp
  \/ ExecuteTask
  \/ GenerateThenConfirm
  \/ ResolveLatest
  \/ ForwardCommand
  \/ AnalyzeEmailContent

SpecTask == InitTask /\ [][NextTask]_vars

\* ---------------------------------------------------- folders by role
\* The roles asked for: INBOX, the starred view, roles of Config.FOLDER_NAMES
\* and names that are no role.
Roles == {"INBOX", "inbox", "starred", "archive", "sent", "trash", "Projects", "projects"}

\* The folders a server may have: INBOX and a few of the others.
FolderSets ==
  {S \in SUBSET {ServerOrder[i] : i \in DOMAIN ServerOrder} :
     "INBOX" \in S /\ Cardinality(S) <= MaxFolders}

\* INBOX holds the messages 1..n, every other folder k messages of its own.
Filed(S, n, k) ==
  /\ box = [f \in S |-> IF f = DEFAULT_FOLDER THEN [i \in 1..n |-> i]
                        ELSE [i \in 1..k |-> MaxMsgs + i]]
  /\ deleted = {} /\ seen = {}

FindFolder ==
  /\ pc = "ready"
  /\ \E f \in FaultScripts, role \in Roles :
      Request([name |-> "_find_folder", folder_type |-> role],
              _find_folder(World(f), role))

ListFolder ==
  /\ pc = "ready"
  /\ \E f \in FaultScripts, count \in 1..MaxCount, role \in Roles :
      Request([name |-> "get_recent_emails", count |-> count, folder |-> role],
              get_recent_emails(World(f), count, role))

\* The message at a position of a listing of the inbox or of the starred view.
GetEmailByIndex ==
  /\ pc = "ready"
  /\ \E f \in FaultScripts, index \in 1..MaxMsgs, folder \in {NoFolder, "starred"} :
      Request([name |-> "get_email_by_index", index |-> index, folder |-> folder],
              get_email_by_index(World(f), index, folder))

\* An archive request for a message, the target folder left out or given
\* as a role or as a name.
ArchiveTask ==
  /\ pc = "ready"
  /\ \E f \in FaultScripts, t \in {Num(1), LATEST}, folder \in {"", "archive", "Archive"} :
      Request([name |-> "execute_task", intent |-> "archive_email",
               p |-> [One(t) EXCEPT !.folder_name = folder]],
              execute_task(World(f), "archive_email", [One(t) EXCEPT !.folder_name = folder]))

InitFolders ==
  /\ \E S \in FolderSets, n \in 0..MaxMsgs, k \in 0..MaxFiled : Filed(S, n, k)
  /\ Constructed

NextFolders ==
  \/ ImapDrop
  \/ ConnectImap
  \/ FindFolder
  \/ ListFolder
  \/ GetEmailByIndex
  \/ ArchiveTask

SpecFolders == InitFolders /\ [][NextFolders]_vars

\* ------------------------------------------------- one send after another
\* The sends of EmailClient, called again and again on one client.
Sends == {"send_reply", "forward_email", "send_email"}

\* send_reply(message), forward_email(message, recipient), send_email(recipient)
SendCalls ==
  {[name |-> "send_reply", u |-> u, t |-> 0] : u \in Msgs}
    \cup {[name |-> "forward_email", u |-> 1, t |-> t] : t \in Recipients}
    \cup {[name |-> "send_email", u |-> 0, t |-> t] : t \in Recipients}

send(w, o) ==
  CASE o.name = "send_reply" -> send_reply(w, Fetched(o.u), <<"reply">>)
    [] o.name = "forward_email" -> forward_email(w, Fetched(o.u), o.t)
    [] OTHER -> send_email(w, o.t)

Send(f) ==
  /\ \E o \in SendCalls : Commit(o, send(World(f), o))
  /\ UNCHANGED pc
  /\ UNCHANGED server

\* A send while the server may refuse or break off ...
SendScripts == {f \in FaultScripts : DOMAIN f \subseteq 1..3}

SendUnreachable == \E f \in SendScripts : Send(f)

\* ... and a send while it answers every command.
SendReachable == Send(<<>>)

\* The environment: the submission session goes stale, once.
SmtpStale ==
  /\ pc = "ready" /\ smtp = "Auth"
  /\ smtp' = "Dead" /\ pc' = "stale"
  /\ UNCHANGED <<box, deleted, seen, imap, sel, op, ret, log, pre>>
  /\ UNCHANGED server

InitSend == Mailbox(MaxMsgs, {}, {}) /\ Constructed

NextSend ==
  \/ SmtpStale
  \/ SendUnreachable
  \/ SendReachable

\* Sends go on being made, and the server is reachable again and again.
SpecSend == InitSend /\ [][NextSend]_vars /\ WF_vars(SendReachable)

\* ------------------------------------------------------------ the server
\* task_executors after the login of one account: account -> its executor,
\* which owns the one retrieval and the one submission session.
ACCOUNT == "me"
task_executors == {ACCOUNT}

\* The "email" field of a request: absent, the account, or another one.
NoEmail == ""
Emails == {NoEmail, ACCOUNT, "other"}

\* _get_executor(email): the key of the executor, or the status raised.
_get_executor(email) ==
  IF task_executors = {} THEN [status |-> 401, key |-> NoEmail]
  ELSE LET target_email == IF email = NoEmail THEN CHOOSE k \in task_executors : TRUE
                           ELSE email
       IN IF target_email \notin task_executors THEN [status |-> 404, key |-> target_email]
          ELSE [status |-> 200, key |-> target_email]

\* DELETE /api/emails/{email_id} and PATCH /api/emails/{email_id}/mark: the
\* executor of the account runs the task; the result is the response.
Endpoints == {"delete_email", "mark_email"}

endpoint(w, request) ==
  LET executor == _get_executor(request.email)
      intent == IF request.endpoint = "delete_email" THEN "delete_email" ELSE "mark_read"
  IN IF executor.status # 200 THEN Ret(w, Http(executor.status))
     ELSE Do(execute_task(w, intent, One(Num(request.email_id))), LAMBDA w1 :
             Ret(w1, [status |-> 200, success |-> w1.ret.success]))

Requests == [endpoint : Endpoints, email : Emails, email_id : 1..MaxRequestId]

\* The handlers are coroutines ("async def") that never await: the event
\* loop, the only thread that runs handlers, takes the next request when the
\* handler it is running has returned.
EventLoopFree_threads == TRUE

EventLoopFree == \A i \in DOMAIN running : running[i].returned

\* A request arrives, at any moment.
Arrive ==
  /\ Len(arrived) < MaxRequests
  /\ \E request \in Requests : arrived' = Append(arrived, request)
  /\ UNCHANGED <<box, deleted, seen, imap, smtp, sel, op, ret, log, pre, pc,
                 running, inflight, wire>>

\* The event loop starts the handler of a waiting request.  What the handler
\* will do is what the code does from the state it starts in (w); its
\* protocol calls are issued one by one (Call, Answer).
Dispatch ==
  /\ EventLoopFree
  /\ \E i \in DOMAIN arrived \ DOMAIN running :
       running' = [j \in DOMAIN running \cup {i} |->
                    IF j = i THEN [w |-> endpoint(World(<<>>), arrived[i]), at |-> 0,
                                   returned |-> FALSE]
                    ELSE running[j]]
  /\ UNCHANGED <<box, deleted, seen, imap, smtp, sel, op, ret, log, pre, pc,
                 arrived, inflight, wire>>

\* A running handler issues its next protocol call on the account's session
\* and blocks in it.
Call ==
  /\ \E i \in DOMAIN running :
       /\ ~running[i].returned
       /\ running[i].at < Len(running[i].w.log)
       /\ \A x \in inflight : x.request # i
       /\ inflight' = inflight \cup {[request |-> i, at |-> running[i].at + 1]}
       /\ wire' = Append(wire, [request |-> i, c |-> running[i].w.log[running[i].at + 1].c])
  /\ UNCHANGED <<box, deleted, seen, imap, smtp, sel, op, ret, log, pre, pc,
                 arrived, running>>

\* The mail server answers a call; the handler goes on.
Answer ==
  /\ \E x \in inflight :
       /\ inflight' = inflight \ {x}
       /\ running' = [running EXCEPT ![x.request].at = x.at]
  /\ UNCHANGED <<box, deleted, seen, imap, smtp, sel, op, ret, log, pre, pc,
                 arrived, wire>>

\* The handler returns: its effects are there, the response goes out.
Return ==
  /\ \E i \in DOMAIN running :
       /\ ~running[i].returned
       /\ running[i].at = Len(running[i].w.log)
       /\ running' = [running EXCEPT ![i].returned = TRUE]
       /\ Commit([name |-> arrived[i].endpoint, request |-> i], running[i].w)
  /\ UNCHANGED <<pc, arrived, inflight, wire>>

\* The server after the login of one account: login connected the session.
InitServer ==
  /\ Mailbox(MaxMsgs, {}, {})
  /\ imap = "Auth" /\ smtp = "None" /\ sel = "none" /\ pc = "ready"
  /\ op = [name |-> "login"] /\ ret = FALSE /\ log = <<>>
  /\ arrived = <<>> /\ running = <<>> /\ inflight = {} /\ wire = <<>>
  /\ pre = Snapshot

NextServer ==
  \/ Arrive
  \/ Dispatch
  \/ Call
  \/ Answer
  \/ Return

SpecServer == InitServer /\ [][NextServer]_vars

\* ================================================================ claims
IsArchive == op.name \in {"archive_email_to_folder", "move_email_to_folder"}

CopyOkAt(j) == j \in DOMAIN log /\ log[j].c = "COPY" /\ log[j].r = "OK"

\* C3: archive (and move, which delegates to it) sends the delete-flag store
\* only right after a copy that reported OK, and the expunge only right after
\* that store; when no copy reported OK nothing is deleted and INBOX and its
\* flags are as they were.
C3_CopyThenFlag ==
  IsArchive =>
    /\ \A i \in DOMAIN log :
         /\ log[i].c = "STORE+" => CopyOkAt(i - 1)
         /\ log[i].c = "EXPUNGE" =>
              i > 1 /\ log[i - 1].c = "STORE+" /\ CopyOkAt(i - 2)
    /\ (~\E j \in DOMAIN log : CopyOkAt(j)) =>
         /\ ret = FALSE
         /\ box[DEFAULT_FOLDER] = pre.box[DEFAULT_FOLDER]
         /\ deleted = pre.deleted

\* C3 witness: an archive whose copy was refused, and that stopped there.
C3_Witness ==
  /\ IsArchive /\ ret = FALSE /\ log # <<>>
  /\ log[Len(log)].c = "COPY" /\ log[Len(log)].r = "NO"
  /\ op.m \in 1..Len(pre.box[DEFAULT_FOLDER])

ImapOps ==
  {"delete_email", "archive_email_to_folder", "move_email_to_folder",
   "mark_email_as_read", "mark_email_as_unread"}

SmtpOps == {"forward_email", "send_reply"}

\* C6: an operation called while its connection handle is present but the
\* connection is dead starts with a health check or a reconnect, before any
\* other command goes to that session.
C6_ReconnectFirst ==
  /\ (op.name \in ImapOps /\ pre.imap = "Dead" /\ log # <<>>) =>
       log[1].c \in {"NOOP", "LOGOUT", "CONNECT"}
  /\ (op.name \in SmtpOps /\ pre.smtp = "Dead" /\ log # <<>>) =>
       log[1].c \in {"QUIT", "SMTP_CONNECT"}

\* The message an archive or delete request addresses, when there is one.
Addressed == op.m \in 1..Len(pre.box[DEFAULT_FOLDER])
Target == pre.box[DEFAULT_FOLDER][op.m]

\* C9: archive is atomic for its caller: on success the message is in the
\* target folder and no longer in INBOX; on failure the mailbox is as it was.
C9_ArchiveAtomic ==
  (op.name = "archive_email_to_folder" /\ op.folder \in ServerFolders) =>
    /\ (ret = TRUE /\ Addressed) =>
         /\ Target \in InFolder(box, op.folder)
         /\ Target \notin InFolder(box, DEFAULT_FOLDER)
    /\ ret = FALSE => box = pre.box /\ deleted = pre.deleted

SentOk(c) == \E i \in DOMAIN log : log[i].c = c /\ log[i].r = "OK"

\* C10: a single-message mutation reports success only when its commands
\* were accepted: delete_email of a message of INBOX returns True only when
\* the delete-flag store and the expunge reported OK (and the message is
\* gone), and the two mark operations only when the flag store reported OK.
C10_SuccessMeansAccepted ==
  /\ (op.name = "delete_email" /\ ret = TRUE /\ Addressed) =>
       /\ SentOk("STORE+") /\ SentOk("EXPUNGE")
       /\ Target \notin InFolder(box, DEFAULT_FOLDER)
  /\ (op.name = "mark_email_as_read" /\ ret = TRUE) => SentOk("STORE+")
  /\ (op.name = "mark_email_as_unread" /\ ret = TRUE) => SentOk("STORE-")

\* ------------------------------------------------------ batch reports
MailerBatches ==
  {"batch_forward_email", "batch_archive_emails", "batch_delete_emails",
   "batch_mark_as_read", "batch_mark_as_unread"}

\* The request was a batch that came back with a report: a batch method of
\* EmailClient, or a task whose envelope carries the report.
HasReport ==
  \/ op.name \in MailerBatches
  \/ /\ op.name = "execute_task" /\ ret # RAISED /\ ret.data.kind = "report"

TheReport == IF op.name = "execute_task" THEN ret.data ELSE ret

\* C1: the report of every batch call, of EmailClient's batch methods and of
\* the tasks built on them (the most-recent-N forward included), satisfies
\* success + failed = total and has one result per item.
C1_ReportAddsUp ==
  HasReport =>
    /\ TheReport.success + TheReport.failed = TheReport.total
    /\ Len(TheReport.results) = TheReport.total

\* A report with successes and failures, from a task and from a batch method.
C1_Witness ==
  /\ HasReport /\ op.name = "execute_task" /\ op.intent = "forward_email"
  /\ op.p.batch_operation
  /\ TheReport.success > 0 /\ TheReport.failed > 0

\* The positions of the log where batch_forward_email's items start: each
\* item connects anew.
ConnectPos ==
  LET Is(i) == log[i].c = "SMTP_CONNECT"
  IN SelectSeq([i \in 1..Len(log) |-> i], Is)

\* The i-th item's send was accepted.
SendOkIn(i) ==
  \E j \in DOMAIN log :
    /\ log[j].c = "SENDMAIL" /\ log[j].r = "OK"
    /\ j > ConnectPos[i]
    /\ i < Len(ConnectPos) => j < ConnectPos[i + 1]

\* C2: results[i] is the outcome of the i-th input and tagged with it; an item
\* that fails is recorded as failed and the items after it are still
\* attempted: in a forward to several recipients every recipient gets its own
\* connection attempt, and is a success exactly when its own send was
\* accepted (3 recipients of which only the 2nd fails: 3 / 2 / 1).
C2_ItemsIsolated ==
  op.name \in MailerBatches =>
    /\ Len(ret.results) = Len(op.items)
    /\ \A i \in DOMAIN ret.results :
         /\ ret.results[i].tag = op.items[i]
         /\ ret.results[i].status \in
              {"success", "archived", "deleted", "marked_read", "marked_unread", "failed"}
    /\ op.name = "batch_forward_email" =>
         /\ Len(ConnectPos) = Len(op.items)
         /\ \A i \in DOMAIN ret.results :
              ret.results[i].status = (IF SendOkIn(i) THEN "success" ELSE "failed")
         /\ (Len(op.items) = 3 /\ SendOkIn(1) /\ ~SendOkIn(2) /\ SendOkIn(3)) =>
              ret.total = 3 /\ ret.success = 2 /\ ret.failed = 1

\* Three recipients, the second send fails, the third is still made.
C2_Witness ==
  /\ op.name = "batch_forward_email" /\ Len(op.items) = 3
  /\ SendOkIn(1) /\ ~SendOkIn(2) /\ SendOkIn(3)
  /\ ret.results[2].status = "failed" /\ ret.results[3].status = "success"

\* ------------------------------------------------ batch delete / archive
IsRemoval ==
  \/ op.name \in {"batch_delete_emails", "batch_archive_emails"}
  \/ op.name = "execute_task" /\ op.intent \in {"delete_email", "archive_email"}

\* The session was absent or sound when the request came, and no command
\* but a lookup's fetch was refused or failed.
Clean ==
  /\ pre.imap \in {"None", "Auth"}
  /\ \A i \in DOMAIN log : log[i].r = "OK" \/ log[i].c = "FETCH"

\* The messages the report says were removed: those the identifiers
\* designated when the batch started.
Designated ==
  {pre.box[DEFAULT_FOLDER][TheReport.results[i].tag] :
     i \in {j \in DOMAIN TheReport.results :
              TheReport.results[j].status \in {"deleted", "archived"}}}

Gone == InFolder(pre.box, DEFAULT_FOLDER) \ InFolder(box, DEFAULT_FOLDER)

\* C4: in a batch delete or archive the messages that go are the ones the
\* identifiers designated before the first mutation, whatever the order of
\* the list.
C4_SameMessage == (IsRemoval /\ HasReport /\ Clean) => Gone = Designated

\* ------------------------------------------------------ batch forwards
IsBatchForward ==
  \/ op.name = "batch_forward_email"
  \/ op.name = "execute_task" /\ op.intent = "forward_email" /\ HasReport

\* C8: in a forward to several recipients, or of several messages, every
\* send is made on a submission session that was connected and logged in
\* after the previous send, never on the session of the previous send.
C8_FreshSession ==
  IsBatchForward =>
    \A j \in DOMAIN log :
      log[j].c = "SENDMAIL" =>
        \E k \in 2..(j - 1) :
          /\ log[k - 1].c = "SMTP_CONNECT" /\ log[k - 1].r = "OK"
          /\ log[k].c = "SMTP_LOGIN" /\ log[k].r = "OK"
          /\ \A l \in (k + 1)..(j - 1) : log[l].c # "SENDMAIL"

\* Several recent messages forwarded, each after a new connection.
C8_Witness ==
  /\ op.name = "execute_task" /\ op.intent = "forward_email" /\ op.p.batch_operation
  /\ Cardinality({j \in DOMAIN log : log[j].c = "SENDMAIL" /\ log[j].r = "OK"}) >= 2
  /\ pre.smtp = "Auth"

\* ------------------------------------------------------------- lookups
\* The newest-first snapshot a listing of the mailbox shows: the messages of
\* the search window, or all of them when the window is empty.
Newest ==
  LET b == pre.box[DEFAULT_FOLDER]
      In(u) == u \notin OldMsgs
      recent == SelectSeq(b, In)
  IN Reversed(IF recent # <<>> THEN recent ELSE b)

\* C5: a request for the message with the digit token k gets the k-th newest
\* message of the snapshot, and not-found when k exceeds the snapshot.
C5_OrdinalLookup ==
  (/\ op.name = "execute_task" /\ op.intent = "get_email_detail"
   /\ op.p.email_id.k = "num" /\ Clean) =>
    IF op.p.email_id.n <= Len(Newest)
    THEN ret.success /\ ret.data.u = Newest[op.p.email_id.n]
    ELSE ~ret.success /\ ret.message = "not found"

\* ----------------------------------------------------------- envelopes
\* C7: execute_task returns, whatever the intent and the parameters, an
\* envelope with the keys success, message and data; an intent without a
\* handler gets the fallback handler's answer; a handler that raises (a
\* reply or a forward without email_id, a compose) gives success = FALSE.
C7_AlwaysEnvelope ==
  op.name = "execute_task" =>
    /\ ret # RAISED
    /\ DOMAIN ret = {"success", "message", "data"}
    /\ ret.success \in BOOLEAN
    /\ op.intent \notin Intents => ret.message \in {"cannot understand", "assistant hint"}
    /\ (op.intent \in {"reply_email", "analyze_priority", "generate_reply"}
        /\ op.p.email_id.k = "none") =>
         ~ret.success /\ ret.message = "exception"

\* A reply without email_id: the handler raised, the caller got an envelope.
C7_Witness ==
  /\ op.name = "execute_task" /\ op.intent = "reply_email"
  /\ op.p.email_id.k = "none"
  /\ ret = Envelope(FALSE, "exception", NoData)

\* ------------------------------------------------- batches by address
\* C11: a batch over an explicit list of addresses reports one outcome per
\* supplied address, tagged with it: total is the number of addresses, and an
\* address that does not resolve is a failed item of the report.
C11_OutcomePerAddress ==
  (/\ op.name = "execute_task" /\ op.intent \in BatchIntents /\ op.p.has_ids
   /\ HasReport /\ Clean) =>
    /\ TheReport.total = Len(op.p.email_ids)
    /\ Len(TheReport.results) = Len(op.p.email_ids)
    /\ \A i \in DOMAIN TheReport.results :
         TheReport.results[i].tag = op.p.email_ids[i].n

\* ------------------------------------------------------------ listings
IsListing == op.name = "get_recent_emails" /\ op.count >= 1

\* The number of messages INBOX held when the listing was made.
Held == Len(pre.box[DEFAULT_FOLDER])

\* The session was sound and the server accepted every command of the request.
Accepted ==
  /\ pre.imap \in {"None", "Auth"}
  /\ \A k \in DOMAIN log : log[k].r = "OK"

IsFolderListing ==
  /\ op.name = "get_recent_emails" /\ upper(op.folder) # Spelling("INBOX")
  /\ lower(op.folder) # Spelling("starred")

\* The folder the resolver makes of the role on the folders of the server.
Resolved == match_folder(op.folder, folder_list(Listing(pre)))

\* C13: a listing of a folder given by a role other than the inbox returns
\* only messages of the folder the role resolves to, each being the message
\* that has the returned identifier in that folder.
C13_ListsResolvedFolder ==
  IsFolderListing =>
    \A i \in DOMAIN ret :
      /\ Resolved \in DOMAIN pre.box
      /\ ret[i].id \in DOMAIN pre.box[Resolved]
      /\ ret[i].u = pre.box[Resolved][ret[i].id]

\* ------------------------------------------------- resolving a folder
\* A resolution that went through the folder list of the server.
IsResolution ==
  /\ op.name = "_find_folder"
  /\ upper(op.folder_type) # Spelling("INBOX")
  /\ lower(op.folder_type) # Spelling("starred")
  /\ \E k \in DOMAIN log : log[k].c = "LIST" /\ log[k].r = "OK"

Enumerated == DOMAIN pre.box

Candidates ==
  {possible_names(op.folder_type)[i] : i \in DOMAIN possible_names(op.folder_type)}

\* Some candidate and some folder of the server pass the test of a tier.
Tier(Match(_, _)) == \E c \in Candidates, a \in Enumerated : Match(c, a)

\* The result is a folder of the server that passes the test of the tier.
Hit(Match(_, _)) == ret \in Enumerated /\ \E c \in Candidates : Match(c, ret)

\* C14: the resolver applies its tiers in order and stops at the first hit:
\* an exact match of a candidate name if there is one, only otherwise a
\* case-insensitive match, only otherwise a containment match in either
\* direction, then the role name itself, else nothing; archive resolves to
\* Archive on [INBOX, Archive] and to archiv on [INBOX, archiv].
C14_TiersInOrder ==
  IsResolution =>
    /\ CASE Tier(ExactMatch) -> Hit(ExactMatch)
         [] Tier(CaseMatch) -> Hit(CaseMatch)
         [] Tier(ContainMatch) -> Hit(ContainMatch)
         [] op.folder_type \in Enumerated -> ret = op.folder_type
         [] OTHER -> ret = NoFolder
    /\ (op.folder_type = "archive" /\ Enumerated = {"INBOX", "Archive"}) => ret = "Archive"
    /\ (op.folder_type = "archive" /\ Enumerated = {"INBOX", "archiv"}) => ret = "archiv"

\* archive resolved to the exact match although a folder that matches by
\* containment comes first in the list.
C14_Witness ==
  /\ IsResolution /\ op.folder_type = "archive"
  /\ Enumerated = {"INBOX", "archiv", "Archive"} /\ ret = "Archive"

\* archive resolved by the third tier.
C14_WitnessContained ==
  /\ IsResolution /\ op.folder_type = "archive"
  /\ Enumerated = {"INBOX", "archiv"} /\ ret = "archiv"

\* ------------------------------------------------- missing parameters
\* A forward request that names no recipient at all.
NoRecipient ==
  /\ op.name = "execute_task" /\ op.intent = "forward_email"
  /\ op.p.forward_to = 0 /\ op.p.recipients = <<>>

\* A move request that names no folder.
NoFolderName ==
  /\ op.name = "execute_task" /\ op.intent = "move_email" /\ op.p.folder_name = ""

\* C15: a request that lacks a required parameter (the recipient of a
\* forward, the folder of a move) is answered success = false without any
\* command having been sent to a server.
C15_RejectedBeforeProtocol ==
  (NoRecipient \/ NoFolderName) => (ret.success = FALSE /\ log = <<>>)

\* -------------------------------------------------------------- replies
IsReply == op.name = "execute_task" /\ op.intent = "reply_email"

Fetches == {k \in DOMAIN log : log[k].c = "FETCH" /\ log[k].r = "OK"}

Submissions == {j \in DOMAIN log : log[j].c = "SENDMAIL"}

\* The message the token of the request resolved to: the one the first
\* accepted fetch of the request retrieved.
Requested ==
  pre.box[DEFAULT_FOLDER][log[CHOOSE k \in Fetches : \A l \in Fetches : k <= l].m]

\* C16: a reply makes at most one submission, exactly one when it succeeds;
\* it is addressed to the sender of the message the token resolved to and
\* its subject is that message's after "Re: ".
C16_ReplyToRequested ==
  IsReply =>
    /\ Cardinality(Submissions) <= 1
    /\ (ret.success = TRUE) => (\E j \in Submissions : log[j].r = "OK")
    /\ \A j \in Submissions :
         /\ Fetches # {}
         /\ log[j].to = From(Requested)
         /\ log[j].subject = <<"Re: ">> \o Subject(Requested)

\* ------------------------------------------------------------- forwards
IsForward == op.name = "execute_task" /\ op.intent = "forward_email"

\* C17: the text of every forwarded submission quotes the original's
\* sender and subject and ends with the original's full body, on every
\* forward path (by identifier, by ordinal, latest, most recent N).
C17_ForwardCarriesBody ==
  IsForward =>
    \A j \in Submissions :
      log[j].body = <<"Forwarded message", From(log[j].m), Subject(log[j].m)>>
                      \o Body(log[j].m)

\* ------------------------------------------------- archiving to a role
IsArchiveTask == op.name = "execute_task" /\ op.intent = "archive_email"

\* The role of the target folder: archive when the request names none.
TargetRole == IF op.p.folder_name = "" THEN "archive" ELSE op.p.folder_name

\* C18: the folder named in the copy command of an archive request is the
\* one the resolver makes of the target role on the folders of the server.
C18_CopiesToResolved ==
  IsArchiveTask =>
    \A j \in DOMAIN log :
      log[j].c = "COPY" =>
        log[j].to = match_folder(TargetRole, folder_list(Listing(pre)))

\* ------------------------------------------------------ session health
\* C19: when the health check answers dead the connection handle is
\* cleared, whether the no-op raised or returned a status other than OK.
C19_DeadMeansCleared ==
  (op.name = "_check_imap_connection" /\ ret = FALSE) => imap = "None"

IsEnsure == op.name = "_ensure_imap_connection"

\* The health check of the request succeeded: a no-op was sent and accepted.
Healthy == log # <<>> /\ log[1].c = "NOOP" /\ log[1].r = "OK"

Connects == {j \in DOMAIN log : log[j].c = "CONNECT"}

\* connect_imap returned True: the login of the request was accepted.
Connected == \E j \in DOMAIN log : log[j].c = "LOGIN" /\ log[j].r = "OK"

\* C20: ensuring the connection returns True without connecting when the
\* health check succeeds, otherwise connects exactly once and returns what
\* connect returned; whenever it returns True the handle is a connection
\* on which the login succeeded.
C20_EnsureConnected ==
  IsEnsure =>
    /\ Healthy => (ret = TRUE /\ Connects = {})
    /\ ~Healthy => (Cardinality(Connects) = 1 /\ ret = Connected)
    /\ (ret = TRUE) => imap = "Auth"

\* ------------------------------------------------------ select retries
IsSelect == op.name = "_select_folder"

Selects == {j \in DOMAIN log : log[j].c = "SELECT"}
Examines == {j \in DOMAIN log : log[j].c = "EXAMINE"}
Sleeps == {j \in DOMAIN log : log[j].c = "SLEEP"}

\* The loop was entered: the connection was ensured before the first attempt.
Entered == IF pre.imap = "None" THEN Connected ELSE Healthy \/ Connected

\* Before the wait at j: the logout of the connection the last attempt ran on
\* (none to send when the connect before that attempt had failed and left no
\* handle); after it: a connect before anything else.
Reconnecting(j) ==
  /\ j > 1
  /\ \/ log[j - 1].c = "LOGOUT"
     \/ log[j - 1].c = "CONNECT" /\ log[j - 1].r # "OK"
  /\ log[j].m = 1
  /\ j < Len(log) /\ log[j + 1].c = "CONNECT"

\* C21: _select_folder makes at most RetryCount + 1 attempts (each at most
\* one SELECT and one EXAMINE); every attempt after the first follows a
\* disconnect, a wait of one second and an ensure-connection call (which
\* connects, the handle being cleared); the call returns a boolean, True
\* exactly when its last command is an accepted SELECT or EXAMINE, and
\* False once the last attempt failed.
C21_BoundedRetries ==
  IsSelect =>
    /\ ret \in BOOLEAN
    /\ Cardinality(Sleeps) <= RetryCount
    /\ Cardinality(Selects) <= Cardinality(Sleeps) + 1
    /\ Cardinality(Examines) <= Cardinality(Sleeps) + 1
    /\ ~Entered => (Selects = {} /\ Sleeps = {} /\ ret = FALSE)
    /\ \A j \in Sleeps : Reconnecting(j)
    /\ \A j \in Selects \cup Examines : \A k \in Selects :
         j < k => \E l \in Sleeps : j < l /\ l < k
    /\ (ret = TRUE) <=>
         (log # <<>> /\ log[Len(log)].c \in {"SELECT", "EXAMINE"} /\ log[Len(log)].r = "OK")

\* All RetryCount + 1 attempts were made and failed.
C21_Witness ==
  IsSelect /\ Cardinality(Selects) = RetryCount + 1 /\ Cardinality(Sleeps) = RetryCount
           /\ ret = FALSE

\* ----------------------------------------------------------- disconnect
IsDisconnect == op.name \in {"disconnect_imap", "disconnect_smtp"}

\* The farewell command of the session the request closes.
Farewell == IF op.name = "disconnect_imap" THEN "LOGOUT" ELSE "QUIT"

\* The handle the request is about, before and after.
HandleBefore == IF op.name = "disconnect_imap" THEN pre.imap ELSE pre.smtp
HandleAfter == IF op.name = "disconnect_imap" THEN imap ELSE smtp

\* C22: disconnect_imap and disconnect_smtp never raise and leave the
\* handle cleared, from every session state (no handle, connected, not
\* authenticated, dead) and whatever the logout/quit command answers; the
\* command is sent once when there is a handle and not at all otherwise.
C22_DisconnectClears ==
  IsDisconnect =>
    /\ ret = RETURNED
    /\ HandleAfter = "None"
    /\ (op.name = "disconnect_imap") => sel = "none"
    /\ log = IF HandleBefore = "None" THEN <<>>
             ELSE <<[c |-> Farewell, m |-> 0, r |-> log[1].r]>>

\* A disconnect whose logout failed.
C22_Witness ==
  IsDisconnect /\ log # <<>> /\ log[1].r # "OK" /\ HandleAfter = "None"

\* -------------------------------------------------------------- connect
IsConnect == op.name = "connect_imap"

\* The answers to the ID command of the request.
Handshakes == {j \in DOMAIN log : log[j].c = "ID"}

\* C23: connect_imap returns True exactly when the login was accepted,
\* whatever the ID command answered, and then leaves the handle on the
\* authenticated connection; the ID command is sent once, after an accepted
\* login only.
C23_HandshakeOptional ==
  IsConnect =>
    /\ ret = Connected
    /\ Connected => imap = "Auth"
    /\ Connected <=> Handshakes # {}
    /\ \A j \in Handshakes : j = Len(log) /\ log[j - 1].c = "LOGIN" /\ log[j - 1].r = "OK"

\* The login was accepted and the ID command failed.
C23_Witness ==
  IsConnect /\ Connected /\ ret = TRUE /\ imap = "Auth"
            /\ \E j \in Handshakes : log[j].r # "OK"

\* -------------------------------------------------------------- starred
IsStarred ==
  /\ op.name \in {"_find_folder", "get_recent_emails"}
  /\ lower(IF op.name = "_find_folder" THEN op.folder_type ELSE op.folder) = Spelling("starred")

\* The sequence numbers of INBOX the request fetched, in the order fetched.
FetchedNumbers ==
  LET Got(j) == log[j].c = "FETCH" /\ log[j].r = "OK"
      js == SelectSeq([j \in DOMAIN log |-> j], Got)
  IN [i \in DOMAIN js |-> log[js[i]].m]

\* The flagged ones among them.
FlaggedNumbers ==
  LET IsFlagged(m) == pre.box[DEFAULT_FOLDER][m] \in Flagged
  IN SelectSeq(FetchedNumbers, IsFlagged)

\* C24: the role starred resolves to no folder without a LIST being sent; a
\* listing with role starred sends no LIST either, fetches the messages of
\* the inbox snapshot (the last count of INBOX, newest first) and returns
\* those of the messages fetched that carry the flag, in the order fetched,
\* and no message without the flag.
C24_StarredIsFiltered ==
  IsStarred =>
    /\ \A j \in DOMAIN log : log[j].c # "LIST"
    /\ (op.name = "_find_folder") => (ret = NoFolder /\ log = <<>>)
    /\ (op.name = "get_recent_emails") =>
         /\ Len(ret) = Len(FlaggedNumbers)
         /\ \A i \in DOMAIN ret :
              /\ ret[i].id = FlaggedNumbers[i]
              /\ ret[i].u = pre.box[DEFAULT_FOLDER][ret[i].id]
              /\ ret[i].u \in Flagged
         /\ Accepted =>
              \A i \in DOMAIN FetchedNumbers :
                 i <= op.count /\ FetchedNumbers[i] = Held + 1 - i

\* A starred listing that fetched a flagged and an unflagged message and
\* returned the flagged one.
C24_Witness ==
  /\ IsStarred /\ op.name = "get_recent_emails"
  /\ Len(FetchedNumbers) = 2 /\ Len(ret) = 1 /\ ret[1].u \in Flagged

\* ------------------------------------------------------- empty batches
\* A request its handler treats as a batch over addresses: a list of address
\* tokens (delete, archive, mark), or the count most recent (delete, archive,
\* and forward to a recipient).
ByList ==
  /\ op.intent \in {"delete_email", "archive_email", "mark_read", "mark_unread"}
  /\ op.p.has_ids
  /\ \A i \in DOMAIN op.p.email_ids : op.p.email_ids[i].k # "none"

ByCount ==
  /\ op.intent \in {"delete_email", "archive_email", "forward_email"}
  /\ op.p.batch_operation /\ op.p.count_kind = "int" /\ op.p.count # 0
  /\ op.intent = "forward_email" => op.p.forward_to # 0

IsAddressBatch == op.name = "execute_task" /\ (ByList \/ ByCount)

\* A token that denotes a message of the mailbox the request started on: a
\* position within it, or "latest" when it is not empty.
Addressable(t) ==
  \/ t.k = "latest" /\ Held >= 1
  \/ t.k = "num" /\ t.n <= Held

\* No address can resolve: every position of the list lies beyond the
\* mailbox, or the most recent are asked of an empty mailbox.
NoneAddressable ==
  \/ ByList /\ \A i \in DOMAIN op.p.email_ids : ~Addressable(op.p.email_ids[i])
  \/ ByCount /\ Held = 0

\* No address resolved: no message was fetched.
NoneResolved == \A j \in DOMAIN log : ~(log[j].c = "FETCH" /\ log[j].r = "OK")

\* The commands that change a mailbox or submit a message.
Mutations ==
  {j \in DOMAIN log : log[j].c \in {"STORE+", "STORE-", "COPY", "EXPUNGE", "SENDMAIL"}}

Untouched == box = pre.box /\ deleted = pre.deleted /\ seen = pre.seen

\* C25: a batch none of whose addresses resolves to a message (the mailbox
\* is empty, every position of the list lies beyond it, or nothing could be
\* fetched) answers success = FALSE with the "no emails" message and no
\* data, and sends no command that changes a mailbox or submits a message;
\* a batch that answers with a report resolved at least one address.
C25_EmptyBatchFails ==
  IsAddressBatch =>
    /\ (NoneAddressable \/ NoneResolved) =>
         /\ ret = Envelope(FALSE, "no emails", NoData)
         /\ Mutations = {}
         /\ Untouched
    /\ ret.data.kind = "report" =>
         (~NoneAddressable /\ ~NoneResolved /\ ret.data.total >= 1)

\* A position beyond a mailbox that is not empty: the server refuses the
\* fetch of the position, the listing fetches what there is, and nothing
\* else fails.
C25_Witness ==
  /\ IsAddressBatch /\ ByList /\ op.p.email_ids # <<>>
  /\ Held >= 1 /\ NoneAddressable /\ ~NoneResolved
  /\ \A j \in DOMAIN log : log[j].r = "OK" \/ (log[j].c = "FETCH" /\ log[j].m > Held)
  /\ ret.message = "no emails"
  /\ ret.message = "no emails"

\* ------------------------------------------------- batches with failures
\* A forward of one message to several recipients.
ToMany ==
  /\ op.intent = "forward_email" /\ ~op.p.batch_operation
  /\ Len(op.p.recipients) > 1

IsBatch == op.name = "execute_task" /\ (ByList \/ ByCount \/ ToMany)

\* Some address denotes a message of the mailbox the request started on.
SomeAddressable ==
  \/ ByList /\ \E i \in DOMAIN op.p.email_ids : Addressable(op.p.email_ids[i])
  \/ ByCount /\ op.p.count > 0 /\ Held >= 1
  \/ ToMany /\ Addressable(op.p.email_id)

\* Up to the first command that changes a mailbox or submits a message, the
\* server answered every retrieval command as it stands: OK, or NO to the
\* fetch of a position beyond the mailbox.
Retrieved ==
  /\ pre.imap \in {"None", "Auth"}
  /\ \A j \in DOMAIN log :
       \/ log[j].r = "OK"
       \/ log[j].c = "FETCH" /\ log[j].r = "NO" /\ log[j].m > Held
       \/ log[j].c \in {"SMTP_CONNECT", "SMTP_LOGIN", "QUIT", "SENDMAIL"}
       \/ \E k \in Mutations : k <= j

\* C26: a batch answers success = FALSE only before any item is processed
\* (no message found, nothing changed); once an address resolved it answers
\* success = TRUE with the report as data, whatever the number of items that
\* failed: the failures are counted in the report and tagged in its results.
C26_BatchNeverFails ==
  IsBatch =>
    /\ (ret.success = FALSE) =>
         (ret.message \in {"no emails", "not found"} /\ Mutations = {} /\ Untouched)
    /\ (ret.success = TRUE) =>
         /\ ret.data.kind = "report" /\ ret.data.total >= 1
         /\ ret.data.failed \in 0..ret.data.total
         /\ ret.data.failed =
              Cardinality({i \in DOMAIN ret.data.results : ret.data.results[i].status = "failed"})
    /\ (SomeAddressable /\ Retrieved) => ret.success = TRUE
    /\ Mutations # {} => ret.success = TRUE

\* A batch with two failed items that answers success = TRUE.
C26_Witness ==
  /\ IsBatch /\ SomeAddressable /\ Retrieved
  /\ ret.success = TRUE /\ ret.data.failed >= 2

\* ------------------------------------------------------ read, then unread
IsMarkPair == op.name = "mark_read_unread_fetch"

\* Both marks reported success and the fetch returned the message.
PairDone == ret.read = TRUE /\ ret.unread = TRUE /\ ret.email # NONE

IsConfirm == op.name = "generate_then_confirm"

\* A reply was generated for a message and the confirmation named neither
\* message nor text.
Staged == IsConfirm /\ ret.staged.success = TRUE /\ ~op.explicit

IsGenerate == op.name = "execute_task" /\ op.intent = "generate_reply"

Submission == {"SMTP_CONNECT", "SMTP_LOGIN", "QUIT", "SENDMAIL"}

\* C29: generating a reply, for whatever address token and whatever the
\* servers answer, issues no command on the submission session and no
\* store, copy or expunge: no message is added to, removed from or marked
\* deleted in any folder, and the submission session is as it was.
C29_GenerateNeverSends ==
  IsGenerate =>
    /\ \A j \in DOMAIN log : log[j].c \notin Submission
    /\ Mutations = {}
    /\ box = pre.box /\ deleted = pre.deleted /\ smtp = pre.smtp

\* A reply was generated: the message was fetched and the text made for it
\* came back.
C29_Witness ==
  /\ IsGenerate /\ ret.success = TRUE /\ Fetches # {}
  /\ ret.data.reply_content = generate_reply(Body(ret.data.u))
  /\ op.p.email_id.k = "num" /\ seen # pre.seen

\* ------------------------------------------------ one call at a time
\* Requests whose handler is between its start and its return.
Active == {i \in DOMAIN running : ~running[i].returned}

Waiting == DOMAIN arrived \ DOMAIN running

\* The requests that have calls on the wire.
Callers == {wire[j].request : j \in DOMAIN wire}

\* C30: whatever the order in which requests arrive and are served, at most
\* one protocol call is in flight on the account's session, and the calls of
\* one request are consecutive on the wire: no call of another request lies
\* between two of them.
C30_OneCallAtATime ==
  /\ Cardinality(inflight) <= 1
  /\ Cardinality(Active) <= 1
  /\ \A i, j, k \in DOMAIN wire :
       (i < j /\ j < k /\ wire[i].request = wire[k].request)
         => wire[j].request = wire[i].request

\* A call of one request is in flight while another request waits, after
\* the calls of an earlier request.
C30_Witness ==
  /\ inflight # {} /\ Waiting # {}
  /\ Cardinality(Callers) = 2
  /\ \A i \in Waiting : _get_executor(arrived[i].email).status = 200

\* ----------------------------------------------------------- "latest"
IsResolveLatest == op.name = "resolve_latest"

\* C31: with every command accepted, "latest" resolves to the message that
\* is ordinal 1 of a listing of one taken of the same mailbox, the newest
\* message of the folder, and to nothing exactly when that listing is empty.
C31_LatestIsFirstOfOne ==
  (IsResolveLatest /\ Accepted) =>
    /\ (ret.latest = NONE) <=> (ret.snapshot = <<>>)
    /\ (ret.snapshot = <<>>) <=> (pre.box[DEFAULT_FOLDER] = <<>>)
    /\ ret.snapshot # <<>> =>
         /\ Len(ret.snapshot) = 1
         /\ ret.snapshot[1].index = 1
         /\ ret.latest.u = ret.snapshot[1].u
         /\ ret.latest.original_uid = ret.snapshot[1].original_uid
         /\ ret.latest.u = pre.box[DEFAULT_FOLDER][Len(pre.box[DEFAULT_FOLDER])]

\* "latest" resolved in a mailbox of several messages.
C31_Witness ==
  /\ IsResolveLatest /\ Accepted
  /\ Len(pre.box[DEFAULT_FOLDER]) >= 2
  /\ ret.latest # NONE /\ ret.latest.u = ret.snapshot[1].u

\* ------------------------------------------------- forward commands
IsForwardCommand == op.name = "process_input"

\* The mailboxes the text of the command names, and where each is named
\* first.
Mentioned == {op.user_input[i].a : i \in DOMAIN op.user_input} \ {0}

FirstNamed(a) ==
  CHOOSE i \in DOMAIN op.user_input :
    /\ op.user_input[i].a = a
    /\ \A j \in DOMAIN op.user_input : op.user_input[j].a = a => i <= j

\* The recipients are the addresses of the text, each once, as first
\* written, in the order of first appearance.
RecipientsAsNamed ==
  LET recipients == ret.parameters.recipients
  IN /\ Len(recipients) = Cardinality(Mentioned)
     /\ \A i \in DOMAIN recipients :
          /\ recipients[i].a \in Mentioned
          /\ recipients[i] = op.user_input[FirstNamed(recipients[i].a)]
     /\ \A i, j \in DOMAIN recipients :
          i < j => FirstNamed(recipients[i].a) < FirstNamed(recipients[j].a)

\* The sends of the request, in order: the mailbox each goes to.
SentTo ==
  LET js == SelectSeq([j \in DOMAIN log |-> j], LAMBDA j : log[j].c = "SENDMAIL")
  IN [i \in DOMAIN js |-> log[js[i]].to]

\* C32: a forward command naming k >= 2 addresses gets recipients listing
\* them once each in the order of first appearance, is valid, and, when it
\* forwards, reports on k items with one send per recipient; naming one
\* address it gets forward_to equal to it and makes the single forward.
C32_ForwardToEveryNamed ==
  IsForwardCommand =>
    /\ Cardinality(Mentioned) >= 2 =>
         /\ RecipientsAsNamed
         /\ ret.is_valid
         /\ ret.result.success =>
              /\ ret.result.data.kind = "report"
              /\ ret.result.data.total = Cardinality(Mentioned)
              /\ SentTo = [i \in DOMAIN ret.parameters.recipients |->
                             ret.parameters.recipients[i].a]
    /\ Cardinality(Mentioned) = 1 =>
         /\ ret.parameters.forward_to = <<op.user_input[FirstNamed(CHOOSE a \in Mentioned : TRUE)]>>
         /\ ret.is_valid
         /\ ret.result.success =>
              /\ ret.result.data.kind = "one"
              /\ SentTo = <<CHOOSE a \in Mentioned : TRUE>>

\* ------------------------------------------------ JSON in a response
IsAnalyze == op.name = "analyze_email_content"

\* The first balanced {...} span of the response: from the first "{" to the
\* brace that brings the depth back to 0 (<<>> when there is none).
Depth(response, i, j) ==
  Cardinality({l \in i..j : response[l] = "{"}) - Cardinality({l \in i..j : response[l] = "}"})

FirstBalanced ==
  LET response == op.response
      i == find(response, "{")
      Ends == {j \in DOMAIN response : i # 0 /\ j > i /\ Depth(response, i, j) = 0}
  IN IF Ends = {} THEN <<>>
     ELSE SubSeq(response, i, CHOOSE j \in Ends : \A l \in Ends : j <= l)

\* C33: when the first balanced span of the response is a well-formed
\* object, whatever follows it, the result is that object, not the default.
C33_FirstBalancedSpan ==
  (IsAnalyze /\ FirstBalanced # <<>> /\ json_loads(FirstBalanced) # JSONDecodeError) =>
    /\ ret.analysis = FirstBalanced
    /\ ret.parameters = FirstBalanced

\* ------------------------------------------- handles and authentication
\* A handle on a connection that never logged in.
Unauthenticated == imap = "Unauth" \/ smtp = "Unauth"

\* C34: a handle that is not None is on an authenticated session (or on one
\* that was and has died since): no handle is on a connection whose login
\* was rejected, a connect_imap that returns False leaves the handle None,
\* and a delete_email that starts without an authenticated session connects
\* first.
C34_HandleMeansAuthenticated ==
  /\ ~Unauthenticated
  /\ (IsConnect /\ ret = FALSE) => imap = "None"
  /\ (op.name = "delete_email" /\ pre.imap \in {"None", "Unauth"}) =>
       (log # <<>> /\ log[1].c = "CONNECT")

\* --------------------------------------------- recovering a stale session
\* A send failed on the session that had gone stale.
StaleFailure ==
  /\ pc = "stale" /\ op.name \in Sends
  /\ pre.smtp = "Dead" /\ ret = FALSE

\* A send made after the session went stale succeeded.
Recovered == pc = "stale" /\ op.name \in Sends /\ ret = TRUE

\* C35: after a send failed because the submission session had gone stale,
\* with the server reachable again a later send on the same client
\* eventually succeeds.
C35_StaleSendRecovers == StaleFailure ~> Recovered

\* ------------------------------------------------- what a delete removes
RemovesOne == op.name \in {"delete_email", "archive_email_to_folder"}

Range(q) == {q[i] : i \in DOMAIN q}

\* The message the request addresses, if the folder has it.
TheAddressed ==
  IF op.m \in DOMAIN pre.box[DEFAULT_FOLDER] THEN {pre.box[DEFAULT_FOLDER][op.m]} ELSE {}

\* C36: delete_email (and the removal that ends archive_email_to_folder)
\* removes the addressed message only: every other message of the folder is
\* still there after the call, also one that carried the deleted flag
\* before it.
C36_RemovesOnlyAddressed ==
  RemovesOne =>
    Range(pre.box[DEFAULT_FOLDER]) \ TheAddressed \subseteq Range(box[DEFAULT_FOLDER])

\* ---------------------------------------------------- the N most recent
\* A request for the count most recent messages: a listing, or a batch
\* delete, archive or forward by count.
IsCounted ==
  /\ op.name = "execute_task" /\ op.p.count_kind = "int"
  /\ \/ op.intent = "list_emails"
     \/ op.intent \in {"delete_email", "archive_email", "forward_email"}
          /\ op.p.batch_operation /\ ~op.p.has_ids

\* How many messages the request listed or worked on.
Touched ==
  CASE ret.data.kind = "report" -> ret.data.total
    [] ret.data.kind = "emails" -> Len(ret.data.emails)
    [] ret.data.kind = "one" -> 1
    [] OTHER -> 0

\* C37: a request for the count most recent messages lists or works on at
\* most count messages, for every integer count, 0 and negative included,
\* and removes no more than that from the folder.
C37_AtMostCount ==
  IsCounted =>
    /\ Touched <= (IF op.p.count > 0 THEN op.p.count ELSE 0)
    /\ Len(pre.box[DEFAULT_FOLDER]) - Len(box[DEFAULT_FOLDER])
         <= (IF op.p.count > 0 THEN op.p.count ELSE 0)

\* ------------------------------------------------------ lookup by position
IsByIndex == op.name = "get_email_by_index"

\* C38: get_email_by_index(k) returns None or the message whose listing
\* ordinal, the index field get_recent_emails gave it, is k, also when
\* entries of the snapshot were skipped.
C38_IndexIsOrdinal ==
  (IsByIndex /\ ret # NONE) => ret.index = op.index

====
